---- MODULE Spec2Model ----
(***************************************************************************)
(* Model of the todo application's request handlers (routes/todos.py,      *)
(* routes/todo_lists.py) over the relational store of users, lists and     *)
(* todos.  Every handler is one action: it reads the store, answers with   *)
(* a response and, when it succeeds, commits its changes.                  *)
(*                                                                         *)
(* Text values (titles, names, queries) are sequences of one-character     *)
(* strings, so that trimming, length checks and matching are computed.     *)
(* An optional value (Python None / SQL NULL) is the empty sequence <<>>  *)
(* where the present value is wrapped as <<v>>, except for the two         *)
(* columns with their own markers below.                                   *)
(***************************************************************************)
EXTENDS Integers, Sequences, FiniteSets, TLC

\* ------------------------------------------------------------------ bounds
MaxTodos == 3       \* todo ids ever allocated
MaxPos   == 2       \* largest position value a request submits
MaxTime  == 2       \* clock readings 0..MaxTime
MaxToggled == 2     \* todos created where completion is followed
MaxLists == 3       \* list ids allocated where lists are reordered
MaxTokens == 2      \* session tokens handed out

\* ------------------------------------------------------- program constants
MaxTitleLen == 200
MaxNameLen  == 100

UserIds == {1, 2}          \* two tenants
ListIds == {1, 2}          \* list ids ever allocated
TodoIds == 1..MaxTodos

NullPriority == "NULL"      \* Todo.priority IS NULL
NoTime       == -1          \* Todo.completed_at IS NULL
Priorities   == {"low", "medium", "high"}

VARIABLES
    users,      \* set of user ids stored in the users table
    lists,      \* list id -> [user_id, name, position], the todo_lists table
    todos,      \* todo id -> [list_id, title, priority, is_completed,
                \*             completed_at, position], the todos table
    nextList,   \* next fresh list id
    nextTodo,   \* next fresh todo id
    now,        \* the clock read by datetime.now
    response,   \* the answer to the last request
    accounts,   \* user id -> [email, password], columns of the users table
    sessions,   \* session token -> user id, the session store
    nextToken,  \* next fresh session token
    pending     \* requests in flight: what each has read and changed in
                \* its own database session and has not committed yet

vars == <<users, lists, todos, nextList, nextTodo, now, response,
          accounts, sessions, nextToken, pending>>
store == <<users, lists, todos, nextList, nextTodo>>
auth == <<accounts, sessions, nextToken, pending>>

\* ------------------------------------------------------------ text helpers
IsSpace(c) == c \in {" ", "\t", "\n"}

\* str.lstrip() and str.rstrip(): the text from its first character that
\* is no blank on, and up to its last one
lstrip(s) ==
    IF s = <<>> \/ ~IsSpace(s[1]) THEN s
    ELSE LET kept == {i \in DOMAIN s : ~IsSpace(s[i])}
         IN  IF kept = {} THEN <<>>
             ELSE SubSeq(s, CHOOSE i \in kept :
                               \A j \in 1..(i - 1) : IsSpace(s[j]),
                         Len(s))

rstrip(s) ==
    IF s = <<>> \/ ~IsSpace(s[Len(s)]) THEN s
    ELSE LET kept == {i \in DOMAIN s : ~IsSpace(s[i])}
         IN  IF kept = {} THEN <<>>
             ELSE SubSeq(s, 1, CHOOSE i \in kept :
                                  \A j \in (i + 1)..Len(s) : IsSpace(s[j]))

\* str.strip().  A variant strips the left end only.
strip_leftonly(s) == lstrip(s)

strip(s) == rstrip(lstrip(s))

\* lower-casing of the characters the model uses
Lower(c) == CASE c = "A" -> "a"
              [] c = "B" -> "b"
              [] OTHER   -> c

\* SQL LIKE of s against pattern p, case-insensitive: % matches any run of
\* characters, _ matches exactly one character.
RECURSIVE Like(_, _)
Like(p, s) ==
    IF p = <<>> THEN s = <<>>
    ELSE IF Head(p) = "%"
         THEN Like(Tail(p), s) \/ (s # <<>> /\ Like(p, Tail(s)))
    ELSE IF s = <<>> THEN FALSE
    ELSE IF Head(p) = "_" THEN Like(Tail(p), Tail(s))
    ELSE Lower(Head(p)) = Lower(Head(s)) /\ Like(Tail(p), Tail(s))

\* Todo.title.ilike(f"%{q}%")
ilike(title, q) == Like(<<"%">> \o q \o <<"%">>, title)

\* ------------------------------------------------------------ store reads
TodosOf(l) == {t \in DOMAIN todos : todos[t].list_id = l}
ListsOf(u) == {l \in DOMAIN lists : lists[l].user_id = u}

\* db.query(TodoList).filter(id == list_id, user_id == user_id).first():
\* <<l>> when the list exists and is owned by user_id, <<>> (None) otherwise.
\* A variant looks the list up by id alone.
_verify_list_access_anyowner(list_id, user_id) ==
    IF list_id \in DOMAIN lists THEN <<list_id>> ELSE <<>>

_verify_list_access(list_id, user_id) ==
    IF list_id \in DOMAIN lists /\ lists[list_id].user_id = user_id
    THEN <<list_id>> ELSE <<>>

\* count of the rows of table tds in list_id with is_completed == False
IncompleteCount(tds, list_id) ==
    Cardinality({t \in DOMAIN tds :
                    tds[t].list_id = list_id /\ ~tds[t].is_completed})

\* _get_list_todo_count on the committed table
_get_list_todo_count(list_id) == IncompleteCount(todos, list_id)

\* func.max(position) over a set of positions: <<>> (NULL) when it is empty
SqlMax(S) == IF S = {} THEN <<>> ELSE <<CHOOSE m \in S : \A x \in S : x <= m>>

\* Python's (x or d) for an optional integer x: d when x is None or 0
PyOr(x, d) == IF x = <<>> \/ x[1] = 0 THEN d ELSE x[1]

\* new_pos = (max_pos or -1) + 1.  A variant leaves the new record at the
\* current maximum.
NextPosition_nostep(max_pos) == PyOr(max_pos, 0)

NextPosition(max_pos) == PyOr(max_pos, -1) + 1

\* The sequences that list the ids of S by ascending position (order_by
\* leaves the order of equal positions to the store).
RECURSIVE Perms(_)
Perms(S) == IF S = {} THEN {<<>>}
            ELSE UNION {{<<x>> \o p : p \in Perms(S \ {x})} : x \in S}

\* order_by(Todo.position) over the todos S of table tds
TodosByPositionIn(tds, S) ==
    {p \in Perms(S) : \A i \in 1..(Len(p) - 1) :
                         tds[p[i]].position <= tds[p[i + 1]].position}

TodosByPosition(S) == TodosByPositionIn(todos, S)

\* order_by(TodoList.position) over the lists S of table ls
ListsByPosition(ls, S) ==
    {p \in Perms(S) : \A i \in 1..(Len(p) - 1) :
                         ls[p[i]].position <= ls[p[i + 1]].position}

\* ---------------------------------------------------------------- response
Resp(op, status, error, items, count) ==
    [op |-> op, status |-> status, error |-> error,
     items |-> items, count |-> count]

Respond(op, status, error, items, count) ==
    response' = Resp(op, status, error, items, count)

NoCount == -1

\* ------------------------------------------------------- due-date parsing
DigitChars == {"0", "1", "2", "3", "4", "5", "6", "7", "8", "9"}

DigitVal(c) == CASE c = "0" -> 0 [] c = "1" -> 1 [] c = "2" -> 2
                 [] c = "3" -> 3 [] c = "4" -> 4 [] c = "5" -> 5
                 [] c = "6" -> 6 [] c = "7" -> 7 [] c = "8" -> 8
                 [] OTHER   -> 9

AllDigits(s) == \A i \in 1..Len(s) : s[i] \in DigitChars

RECURSIVE NumVal(_)
NumVal(s) == IF s = <<>> THEN 0
             ELSE 10 * NumVal(SubSeq(s, 1, Len(s) - 1)) + DigitVal(s[Len(s)])

\* index of the first occurrence of c in s, 0 when there is none
IndexOf(s, c) ==
    IF \E i \in 1..Len(s) : s[i] = c
    THEN CHOOSE i \in 1..Len(s) : s[i] = c /\ \A j \in 1..(i - 1) : s[j] # c
    ELSE 0

Before(s, c) == SubSeq(s, 1, IndexOf(s, c) - 1)
After(s, c)  == SubSeq(s, IndexOf(s, c) + 1, Len(s))

\* a field of one or two digits with a value in lo..hi; a single digit
\* field written "0" is accepted only where the directive allows it (lo = 0)
FieldOk(f, lo, hi) ==
    /\ Len(f) \in {1, 2}
    /\ AllDigits(f)
    /\ NumVal(f) \in lo..hi

DaysIn(y, m) ==
    IF m \in {4, 6, 9, 11} THEN 30
    ELSE IF m # 2 THEN 31
    ELSE IF (y % 4 = 0 /\ y % 100 # 0) \/ y % 400 = 0 THEN 29 ELSE 28

\* datetime.strptime(s, "%Y-%m-%dT%H:%M"): <<value>> when s has that form and
\* names a real date, <<>> when strptime raises ValueError.
strptime(s) ==
    LET Y    == Before(s, "-")
        r1   == After(s, "-")
        m    == Before(r1, "-")
        r2   == After(r1, "-")
        d    == Before(r2, "T")
        r3   == After(r2, "T")
        H    == Before(r3, ":")
        M    == After(r3, ":")
    IN  IF /\ IndexOf(s, "-") # 0 /\ IndexOf(r1, "-") # 0
           /\ IndexOf(r2, "T") # 0 /\ IndexOf(r3, ":") # 0
           /\ Len(Y) = 4 /\ AllDigits(Y) /\ NumVal(Y) >= 1
           /\ FieldOk(m, 1, 12)
           /\ FieldOk(d, 1, 31)
           /\ FieldOk(H, 0, 23)
           /\ FieldOk(M, 0, 59)
           /\ NumVal(d) <= DaysIn(NumVal(Y), NumVal(m))
        THEN <<[year |-> NumVal(Y), month |-> NumVal(m), day |-> NumVal(d),
                hour |-> NumVal(H), minute |-> NumVal(M)]>>
        ELSE <<>>

\* ------------------------------------------------------------ todo routes
\* Todo(list_id=..., title=..., position=...): the other columns take their
\* defaults.
NewTodo(list_id, title, position) ==
    [list_id |-> list_id, title |-> title, note |-> <<>>, due_date |-> <<>>,
     priority |-> "low", is_completed |-> FALSE, completed_at |-> NoTime,
     position |-> position]

\* title validation shared by create_todo and update_todo: "" when valid
TitleError(title) ==
    IF strip(title) = <<>> THEN "Title is required"
    ELSE IF Len(title) > MaxTitleLen
         THEN "Title must be 200 characters or less"
    ELSE ""

\* the priority search_todos filters by: <<p>> for a recognised value, <<>>
\* for no restriction.  A variant filters by whatever non-empty value came.
PriorityFilter_unchecked(priority) ==
    IF priority # "" THEN <<priority>> ELSE <<>>

PriorityFilter(priority) ==
    IF priority # "" /\ priority \in {"low", "medium", "high"}
    THEN <<priority>> ELSE <<>>

\* the rows search_todos selects in list_id (SQL comparison with a NULL
\* priority is never true)
SearchMatches(list_id, q, priority) ==
    {t \in TodosOf(list_id) :
        /\ strip(q) # <<>> => ilike(todos[t].title, strip(q))
        /\ PriorityFilter(priority) # <<>> =>
              /\ todos[t].priority # NullPriority
              /\ todos[t].priority = PriorityFilter(priority)[1]}

search_todos(user_id, list_id, q, priority) ==
    /\ UNCHANGED <<store, now>>
    /\ IF _verify_list_access(list_id, user_id) = <<>>
       THEN Respond("search_todos", 404, "List not found", <<>>, NoCount)
       ELSE \E found \in TodosByPosition(SearchMatches(list_id, q, priority)) :
               Respond("search_todos", 200, "", found, NoCount)

create_todo(user_id, list_id, title) ==
    IF _verify_list_access(list_id, user_id) = <<>>
    THEN /\ Respond("create_todo", 404, "List not found", <<>>, NoCount)
         /\ UNCHANGED <<store, now>>
    ELSE IF TitleError(title) # ""
    THEN /\ Respond("create_todo", 200, TitleError(title), <<>>, NoCount)
         /\ UNCHANGED <<store, now>>
    ELSE LET max_pos == SqlMax({todos[t].position : t \in TodosOf(list_id)})
             new_pos == NextPosition(max_pos)
             id      == nextTodo
         IN  /\ todos' = (id :> NewTodo(list_id, strip(title), new_pos)) @@ todos
             /\ nextTodo' = nextTodo + 1
             /\ Respond("create_todo", 200, "", <<id>>,
                        IncompleteCount(todos', list_id))
             /\ UNCHANGED <<users, lists, nextList, now>>

\* The status get_todo answers with.
get_todo_status(todo_id, list_id, user_id) ==
    IF _verify_list_access(list_id, user_id) = <<>> THEN 403
    ELSE IF ~(todo_id \in DOMAIN todos /\ todos[todo_id].list_id = list_id) THEN 404
    ELSE 200

get_todo(todo_id, list_id, user_id) ==
    /\ UNCHANGED <<store, now>>
    /\ LET status == get_todo_status(todo_id, list_id, user_id)
       IN  CASE status = 403 ->
                  Respond("get_todo", 403, "Not authorized", <<>>, NoCount)
             [] status = 404 ->
                  Respond("get_todo", 404, "Todo not found", <<>>, NoCount)
             [] OTHER ->
                  Respond("get_todo", 200, "", <<todo_id>>, NoCount)

\* if priority not in ("low", "medium", "high"): priority = "low".
\* A variant stores the value as it came.
CoercedPriority_asgiven(priority) == priority

CoercedPriority(priority) ==
    IF priority \notin {"low", "medium", "high"} THEN "low" ELSE priority

\* The due date update_todo stores for the form field due_date (<<>> when
\* the field is absent) on a todo whose due date is existing: the parsed
\* value, the existing one when strptime raises ValueError, none when the
\* field is absent, empty or blank.  A variant clears the due date when
\* the field does not parse.
DueDateAfter_clears(due_date, existing) ==
    IF due_date # <<>> /\ strip(due_date[1]) # <<>>
    THEN strptime(due_date[1])
    ELSE <<>>

DueDateAfter(due_date, existing) ==
    IF due_date # <<>> /\ strip(due_date[1]) # <<>>
    THEN IF strptime(due_date[1]) # <<>>
         THEN strptime(due_date[1])
         ELSE existing
    ELSE <<>>

\* update_todo.  A variant validates the title before it looks for the
\* todo and its owner.
update_todo_titlefirst(todo_id, user_id, title, note, due_date, priority) ==
    IF TitleError(title) # ""
    THEN /\ Respond("update_todo", 200, TitleError(title), <<>>, NoCount)
         /\ UNCHANGED <<store, now>>
    ELSE IF todo_id \notin DOMAIN todos
    THEN /\ Respond("update_todo", 404, "Todo not found", <<>>, NoCount)
         /\ UNCHANGED <<store, now>>
    ELSE IF _verify_list_access(todos[todo_id].list_id, user_id) = <<>>
    THEN /\ Respond("update_todo", 403, "Not authorized", <<>>, NoCount)
         /\ UNCHANGED <<store, now>>
    ELSE /\ todos' = [todos EXCEPT ![todo_id] =
                        [todos[todo_id] EXCEPT
                           !.title = strip(title),
                           !.note = IF note # <<>> /\ note[1] # <<>>
                                    THEN <<strip(note[1])>> ELSE <<>>,
                           !.due_date =
                              DueDateAfter(due_date, todos[todo_id].due_date),
                           !.priority = CoercedPriority(priority)]]
         /\ Respond("update_todo", 200, "", <<todo_id>>, NoCount)
         /\ UNCHANGED <<users, lists, nextList, nextTodo, now>>

update_todo(todo_id, user_id, title, note, due_date, priority) ==
    IF todo_id \notin DOMAIN todos
    THEN /\ Respond("update_todo", 404, "Todo not found", <<>>, NoCount)
         /\ UNCHANGED <<store, now>>
    ELSE IF _verify_list_access(todos[todo_id].list_id, user_id) = <<>>
    THEN /\ Respond("update_todo", 403, "Not authorized", <<>>, NoCount)
         /\ UNCHANGED <<store, now>>
    ELSE IF TitleError(title) # ""
    THEN /\ Respond("update_todo", 200, TitleError(title), <<>>, NoCount)
         /\ UNCHANGED <<store, now>>
    ELSE LET todo == todos[todo_id]
             prio == CoercedPriority(priority)
             new_note == IF note # <<>> /\ note[1] # <<>>
                         THEN <<strip(note[1])>> ELSE <<>>
             new_due  == DueDateAfter(due_date, todo.due_date)
         IN  /\ todos' = [todos EXCEPT ![todo_id] =
                            [todo EXCEPT !.title = strip(title),
                                         !.note = new_note,
                                         !.due_date = new_due,
                                         !.priority = prio]]
             /\ Respond("update_todo", 200, "", <<todo_id>>, NoCount)
             /\ UNCHANGED <<users, lists, nextList, nextTodo, now>>

\* todo.is_completed = not todo.is_completed;
\* todo.completed_at = now if todo.is_completed else None.
\* Two variants: one completes the todo whatever it was, one keeps the old
\* timestamp when the todo becomes incomplete.
Toggled_complete(todo, time) ==
    [todo EXCEPT !.is_completed = TRUE, !.completed_at = time]

Toggled_keepstamp(todo, time) ==
    [todo EXCEPT !.is_completed = ~todo.is_completed,
                 !.completed_at = IF ~todo.is_completed THEN time
                                  ELSE todo.completed_at]

Toggled(todo, time) ==
    [todo EXCEPT !.is_completed = ~todo.is_completed,
                 !.completed_at = IF ~todo.is_completed THEN time ELSE NoTime]

toggle_todo(todo_id, user_id) ==
    IF todo_id \notin DOMAIN todos
    THEN /\ Respond("toggle_todo", 404, "Todo not found", <<>>, NoCount)
         /\ UNCHANGED <<store, now>>
    ELSE IF _verify_list_access(todos[todo_id].list_id, user_id) = <<>>
    THEN /\ Respond("toggle_todo", 403, "Not authorized", <<>>, NoCount)
         /\ UNCHANGED <<store, now>>
    ELSE /\ todos' = [todos EXCEPT ![todo_id] = Toggled(todos[todo_id], now)]
         /\ Respond("toggle_todo", 200, "", <<todo_id>>,
                    IncompleteCount(todos', todos[todo_id].list_id))
         /\ UNCHANGED <<users, lists, nextList, nextTodo, now>>

delete_todo(todo_id, user_id) ==
    IF todo_id \notin DOMAIN todos
    THEN /\ Respond("delete_todo", 404, "", <<>>, NoCount)
         /\ UNCHANGED <<store, now>>
    ELSE IF _verify_list_access(todos[todo_id].list_id, user_id) = <<>>
    THEN /\ Respond("delete_todo", 403, "", <<>>, NoCount)
         /\ UNCHANGED <<store, now>>
    ELSE /\ todos' = [t \in DOMAIN todos \ {todo_id} |-> todos[t]]
         /\ Respond("delete_todo", 200, "", <<>>, NoCount)
         /\ UNCHANGED <<users, lists, nextList, nextTodo, now>>

\* The position a sibling at pos takes when a todo moves from old to new
\* (old # new).  Two variants shift the siblings the wrong way, and leave the
\* sibling at new where it is.
ShiftedPosition_wrongway(pos, old, new) ==
    IF old < new
    THEN IF old < pos /\ pos <= new THEN pos + 1 ELSE pos
    ELSE IF new <= pos /\ pos < old THEN pos - 1 ELSE pos

ShiftedPosition_offbyone(pos, old, new) ==
    IF old < new
    THEN IF old < pos /\ pos < new THEN pos - 1 ELSE pos
    ELSE IF new <= pos /\ pos < old THEN pos + 1 ELSE pos

ShiftedPosition(pos, old, new) ==
    IF old < new
    THEN IF old < pos /\ pos <= new THEN pos - 1 ELSE pos
    ELSE IF new <= pos /\ pos < old THEN pos + 1 ELSE pos

\* new_position = position: the position the request asks for is taken as
\* it comes, n being the number of todos in the list.  A variant brings it
\* into 0..n-1.
NewPosition_clamped(position, n) ==
    IF position < 0 THEN 0 ELSE IF position > n - 1 THEN n - 1 ELSE position

NewPosition(position, n) == position

reorder_todo(todo_id, user_id, position) ==
    IF todo_id \notin DOMAIN todos
    THEN /\ Respond("reorder_todo", 404, "", <<>>, NoCount)
         /\ UNCHANGED <<store, now>>
    ELSE IF _verify_list_access(todos[todo_id].list_id, user_id) = <<>>
    THEN /\ Respond("reorder_todo", 403, "", <<>>, NoCount)
         /\ UNCHANGED <<store, now>>
    ELSE LET todo == todos[todo_id]
             old_position == todo.position
             new_position ==
                NewPosition(position, Cardinality(TodosOf(todo.list_id)))
         IN  IF old_position = new_position
             THEN /\ Respond("reorder_todo", 200, "", <<todo_id>>, NoCount)
                  /\ UNCHANGED <<store, now>>
             ELSE /\ todos' =
                       [t \in DOMAIN todos |->
                          IF t = todo_id
                          THEN [todos[t] EXCEPT !.position = new_position]
                          ELSE IF todos[t].list_id = todo.list_id
                          THEN [todos[t] EXCEPT !.position =
                                  ShiftedPosition(todos[t].position,
                                                  old_position, new_position)]
                          ELSE todos[t]]
                  /\ Respond("reorder_todo", 200, "", <<todo_id>>, NoCount)
                  /\ UNCHANGED <<users, lists, nextList, nextTodo, now>>

\* ------------------------------------------------------------ list routes
\* name validation shared by create_list and update_list: "" when valid.
\* A variant tests the length only.
NameError_lengthonly(name) ==
    IF Len(name) > MaxNameLen THEN "Name must be 100 characters or less"
    ELSE ""

NameError(name) ==
    IF strip(name) = <<>> THEN "Name is required"
    ELSE IF Len(name) > MaxNameLen
         THEN "Name must be 100 characters or less"
    ELSE ""

\* db.query(TodoList).filter(id == list_id, user_id == user_id).first() as
\* the list routes write it inline, on the lists table ls: 200 when a row
\* is found, 404 when none is.  A variant tells a list of another user
\* from a missing one.
ListLookupStatus_leaky(ls, list_id, user_id) ==
    IF list_id \notin DOMAIN ls THEN 404
    ELSE IF ls[list_id].user_id # user_id THEN 403
    ELSE 200

ListLookupStatus(ls, list_id, user_id) ==
    IF list_id \in DOMAIN ls /\ ls[list_id].user_id = user_id
    THEN 200 ELSE 404

get_lists(user_id) ==
    /\ UNCHANGED <<store, now>>
    /\ \E found \in ListsByPosition(lists, ListsOf(user_id)) :
          Respond("get_lists", 200, "", found, NoCount)

create_list(user_id, name) ==
    IF NameError(name) # ""
    THEN /\ Respond("create_list", 200, NameError(name), <<>>, NoCount)
         /\ UNCHANGED <<store, now>>
    ELSE LET max_pos == SqlMax({lists[l].position : l \in ListsOf(user_id)})
             new_pos == NextPosition(max_pos)
             id      == nextList
         IN  /\ lists' = (id :> [user_id |-> user_id, name |-> strip(name),
                                 position |-> new_pos]) @@ lists
             /\ nextList' = nextList + 1
             /\ Respond("create_list", 200, "", <<id>>, NoCount)
             /\ UNCHANGED <<users, todos, nextTodo, now>>

\* The answers get_list can give on the tables ls and tds (one for each
\* order the store may return todos of equal position in).
get_list_responses(ls, tds, list_id, user_id) ==
    IF ListLookupStatus(ls, list_id, user_id) # 200
    THEN {Resp("get_list", ListLookupStatus(ls, list_id, user_id),
               "List not found", <<>>, NoCount)}
    ELSE {Resp("get_list", 200, "", found, NoCount) :
             found \in TodosByPositionIn(tds,
                          {t \in DOMAIN tds : tds[t].list_id = list_id})}

get_list(list_id, user_id) ==
    /\ UNCHANGED <<store, now>>
    /\ response' \in get_list_responses(lists, todos, list_id, user_id)

\* The answer of update_list on the lists table ls.
update_list_response(ls, list_id, user_id, name) ==
    IF ListLookupStatus(ls, list_id, user_id) # 200
    THEN Resp("update_list", ListLookupStatus(ls, list_id, user_id),
              "List not found", <<>>, NoCount)
    ELSE IF NameError(name) # ""
    THEN Resp("update_list", 200, NameError(name), <<>>, NoCount)
    ELSE Resp("update_list", 200, "", <<list_id>>, NoCount)

update_list(list_id, user_id, name) ==
    /\ response' = update_list_response(lists, list_id, user_id, name)
    /\ IF response'.status = 200 /\ response'.error = ""
       THEN /\ lists' = [lists EXCEPT ![list_id].name = strip(name)]
            /\ UNCHANGED <<users, todos, nextList, nextTodo, now>>
       ELSE UNCHANGED <<store, now>>

\* The todos table after the rows of the lists in gone are removed with
\* them (the store's delete cascade from a list to its todos).
CascadeTodos(gone) ==
    [t \in {x \in DOMAIN todos : todos[x].list_id \notin gone} |-> todos[t]]

\* The answer of delete_list on the lists table ls.
delete_list_response(ls, list_id, user_id) ==
    IF ListLookupStatus(ls, list_id, user_id) # 200
    THEN Resp("delete_list", ListLookupStatus(ls, list_id, user_id),
              "", <<>>, NoCount)
    ELSE Resp("delete_list", 200, "", <<>>, NoCount)

\* delete_list on a store that keeps the todos of a deleted list.
delete_list_keeptodos(list_id, user_id) ==
    /\ response' = delete_list_response(lists, list_id, user_id)
    /\ IF response'.status = 200
       THEN /\ lists' = [l \in DOMAIN lists \ {list_id} |-> lists[l]]
            /\ UNCHANGED <<users, todos, nextList, nextTodo, now>>
       ELSE UNCHANGED <<store, now>>

delete_list(list_id, user_id) ==
    /\ response' = delete_list_response(lists, list_id, user_id)
    /\ IF response'.status = 200
       THEN /\ lists' = [l \in DOMAIN lists \ {list_id} |-> lists[l]]
            /\ todos' = CascadeTodos({list_id})
            /\ UNCHANGED <<users, nextList, nextTodo, now>>
       ELSE UNCHANGED <<store, now>>

\* for position, lid in enumerate(list_id): the lists table ls after the
\* ids of seq from index i on are given their index as position, ids that
\* are not lists of user_id being skipped.
\* A variant renumbers every stored list named in seq, whoever owns it.
Renumbered_anyowner(ls, seq, i, user_id) ==
    [l \in DOMAIN ls |->
       IF \E k \in i..Len(seq) : seq[k] = l
       THEN [ls[l] EXCEPT !.position =
               (CHOOSE k \in i..Len(seq) :
                  seq[k] = l /\ \A j \in (k + 1)..Len(seq) : seq[j] # l) - 1]
       ELSE ls[l]]

RECURSIVE Renumbered(_, _, _, _)
Renumbered(ls, seq, i, user_id) ==
    IF i > Len(seq) THEN ls
    ELSE LET lid == seq[i]
         IN  IF lid \in DOMAIN ls /\ ls[lid].user_id = user_id
             THEN Renumbered([ls EXCEPT ![lid].position = i - 1],
                             seq, i + 1, user_id)
             ELSE Renumbered(ls, seq, i + 1, user_id)

reorder_lists(user_id, list_id) ==
    /\ lists' = Renumbered(lists, list_id, 1, user_id)
    /\ \E found \in ListsByPosition(lists', ListsOf(user_id)) :
          Respond("reorder_lists", 200, "", found, NoCount)
    /\ UNCHANGED <<users, todos, nextList, nextTodo, now>>

\* ------------------------------------------------------------ auth routes
\* EmailStr._validate(email) accepts the text: one "@", something before
\* it, and after it a domain with a period inside and no blank anywhere.
ValidEmail(email) ==
    /\ Cardinality({i \in DOMAIN email : email[i] = "@"}) = 1
    /\ \A i \in DOMAIN email : ~IsSpace(email[i])
    /\ Before(email, "@") # <<>>
    /\ LET domain == After(email, "@")
       IN  /\ Len(domain) >= 3
           /\ domain[1] # "." /\ domain[Len(domain)] # "."
           /\ \E i \in DOMAIN domain : domain[i] = "."

RECURSIVE Reverse(_)
Reverse(s) == IF s = <<>> THEN <<>> ELSE Reverse(Tail(s)) \o <<Head(s)>>

\* bcrypt.gensalt() draws one of these
Salts == {"s", "t"}

\* bcrypt.hashpw(password, salt): a text that starts with the salt and goes
\* on with a digest of the password.  A variant gives back the password.
hashpw_plain(password, salt) == password

hashpw(password, salt) == <<"$", salt>> \o Reverse(password)

\* bcrypt.checkpw(password, hashed): hash again with the salt of hashed
checkpw(password, hashed) ==
    Len(hashed) >= 2 /\ hashed = hashpw(password, hashed[2])

\* db.query(User).filter(User.email == email): the rows with that email, of
\* the users us with columns acc
UsersByEmail(acc, us, email) == {u \in us : acc[u].email = email}

\* The error text of a login whose credentials fail, for a user that was
\* found or not.  A variant tells the two apart.
CredentialError_telling(user_found) ==
    IF user_found THEN "Invalid password" ELSE "No such user"

CredentialError(user_found) == "Invalid email or password"

\* The outcomes login can have on the users us with columns acc: an error
\* text, or the user logged in (one outcome for each row first() may give).
login_answers(acc, us, email, password) ==
    IF ~ValidEmail(email)
    THEN {[error |-> "Invalid email format", user |-> <<>>]}
    ELSE IF UsersByEmail(acc, us, email) = {}
    THEN {[error |-> CredentialError(FALSE), user |-> <<>>]}
    ELSE {IF checkpw(password, acc[u].password)
          THEN [error |-> "", user |-> <<u>>]
          ELSE [error |-> CredentialError(TRUE), user |-> <<>>] :
             u \in UsersByEmail(acc, us, email)}

\* url.startswith("/") and not url.startswith("//") and "://" not in url.
\* A variant asks for the leading "/" only.
is_safe_redirect_slashonly(url) == url # <<>> /\ url[1] = "/"

is_safe_redirect(url) ==
    /\ url # <<>>
    /\ url[1] = "/"
    /\ ~(Len(url) >= 2 /\ url[2] = "/")
    /\ ~\E i \in 1..(Len(url) - 2) : SubSeq(url, i, i + 2) = <<":", "/", "/">>

AppUrl == <<"/", "a", "p", "p">>

\* create_session(user_id): a fresh token is stored for the user
create_session(user_id) ==
    /\ sessions' = (nextToken :> user_id) @@ sessions
    /\ nextToken' = nextToken + 1

\* delete_session(token): the token is forgotten, if it was known
delete_session(token) ==
    sessions' = [t \in DOMAIN sessions \ {token} |-> sessions[t]]

\* get_current_user_id for the cookie sent (<<>> when none is sent): <<user
\* id>> when the cookie is a stored token, <<>> when the request is refused
get_current_user_id(cookie) ==
    IF cookie # <<>> /\ cookie[1] \in DOMAIN sessions
    THEN <<sessions[cookie[1]]>> ELSE <<>>

login(email, password, next) ==
    \E a \in login_answers(accounts, users, email, password) :
       IF a.error # ""
       THEN /\ Respond("login", 200, a.error, <<>>, NoCount)
            /\ UNCHANGED <<store, now, auth>>
       ELSE /\ create_session(a.user[1])
            /\ Respond("login", 200, "",
                       <<nextToken,
                         IF is_safe_redirect(next) THEN next ELSE AppUrl>>,
                       NoCount)
            /\ UNCHANGED <<store, now, accounts, pending>>

MinPasswordLen == 6

\* The error register answers with on the users us with columns acc, ""
\* when the request passes every check.
register_error(acc, us, email, password, confirm_password) ==
    IF ~ValidEmail(email) THEN "Invalid email format"
    ELSE IF Len(password) < MinPasswordLen
    THEN "Password must be at least 6 characters"
    ELSE IF password # confirm_password THEN "Passwords do not match"
    ELSE IF UsersByEmail(acc, us, email) # {} THEN "Email already registered"
    ELSE ""

\* the id of the next user row: ids are never used again
NextUserId == Cardinality(DOMAIN accounts) + 1

\* db.add(User(email, hashed password)); db.commit(); create_session; and
\* the answer that carries the cookie
AddUser(email, password) ==
    \E salt \in Salts :
       /\ users' = users \cup {NextUserId}
       /\ accounts' = (NextUserId :> [email |-> email,
                                      password |-> hashpw(password, salt)])
                         @@ accounts
       /\ create_session(NextUserId)
       /\ Respond("register", 200, "", <<nextToken, AppUrl>>, NoCount)
       /\ UNCHANGED <<lists, todos, nextList, nextTodo, now>>

\* register, run from its first line to its answer without another request
\* in between
register(email, password, confirm_password) ==
    IF register_error(accounts, users, email, password, confirm_password) # ""
    THEN /\ Respond("register", 200,
                    register_error(accounts, users, email, password,
                                   confirm_password),
                    <<>>, NoCount)
         /\ UNCHANGED <<store, now, auth>>
    ELSE AddUser(email, password) /\ UNCHANGED pending

\* register of request req up to and including the check for an existing
\* user: a request that passes waits for its commit
register_check(req, email, password, confirm_password) ==
    /\ \A r \in pending : r.req # req
    /\ IF register_error(accounts, users, email, password,
                         confirm_password) # ""
       THEN /\ Respond("register", 200,
                       register_error(accounts, users, email, password,
                                      confirm_password),
                       <<>>, NoCount)
            /\ UNCHANGED <<store, now, auth>>
       ELSE /\ pending' = pending \cup
                           {[req |-> req, email |-> email,
                             password |-> password]}
            /\ UNCHANGED <<store, now, response, accounts, sessions,
                           nextToken>>

\* the unique constraint on users.email admits a row with this email
UniqueEmailAdmits(email) == UsersByEmail(accounts, users, email) = {}

\* register of a waiting request from db.commit() on: the row is stored, or
\* the commit raises IntegrityError and db_exception_handler answers 500.
\* A variant stores the row whatever the table holds.
register_commit_unchecked(r) ==
    /\ r \in pending
    /\ AddUser(r.email, r.password)
    /\ pending' = pending \ {r}

register_commit(r) ==
    /\ r \in pending
    /\ IF UniqueEmailAdmits(r.email)
       THEN AddUser(r.email, r.password) /\ pending' = pending \ {r}
       ELSE /\ pending' = pending \ {r}
            /\ Respond("register", 500, "Database error occurred", <<>>,
                       NoCount)
            /\ UNCHANGED <<store, now, accounts, sessions, nextToken>>

\* logout with the cookie sent (<<>> when none is sent).  A variant clears
\* the cookie and leaves the session store alone.
logout_cookieonly(cookie) ==
    /\ Respond("logout", 200, "", <<>>, NoCount)
    /\ UNCHANGED <<store, now, auth>>

logout(cookie) ==
    /\ IF cookie # <<>> THEN delete_session(cookie[1])
                        ELSE UNCHANGED sessions
    /\ Respond("logout", 200, "", <<>>, NoCount)
    /\ UNCHANGED <<store, now, accounts, nextToken, pending>>

LoginPrefix == <<"/", "l", "o", "g", "i", "n", "?", "n", "e", "x", "t", "=">>

ApiPrefix == <<"/", "a", "p", "i", "/">>
ApiLists  == ApiPrefix \o <<"l", "i", "s", "t", "s">>

\* next_url = request.url.path, replaced by "/app" for a path that starts
\* with "/api/".  A variant keeps every path.
next_url_aspath(path) == path

next_url(path) ==
    IF Len(path) >= Len(ApiPrefix) /\ SubSeq(path, 1, Len(ApiPrefix)) = ApiPrefix
    THEN AppUrl ELSE path

\* unauthorized_handler for a refused request to path: 401 with the
\* redirect header for an HTMX request, a 302 redirect otherwise
unauthorized_handler(op, path, hx) ==
    /\ Respond(op, IF hx THEN 401 ELSE 302, "",
               <<LoginPrefix \o next_url(path)>>, NoCount)
    /\ UNCHANGED <<store, now, auth>>

\* GET /api/lists and POST /api/lists with the cookie sent
api_get_lists(cookie, hx) ==
    IF get_current_user_id(cookie) = <<>>
    THEN unauthorized_handler("get_lists", ApiLists, hx)
    ELSE get_lists(get_current_user_id(cookie)[1]) /\ UNCHANGED auth

api_create_list(cookie, hx, name) ==
    IF get_current_user_id(cookie) = <<>>
    THEN unauthorized_handler("create_list", ApiLists, hx)
    ELSE create_list(get_current_user_id(cookie)[1], name) /\ UNCHANGED auth

\* ------------------------------------------------------------ page routes
\* get_session(session_id): <<user id>> for a stored token, <<>> otherwise
get_session(cookie) ==
    IF cookie # <<>> /\ cookie[1] \in DOMAIN sessions
    THEN <<sessions[cookie[1]]>> ELSE <<>>

\* the text of an id, as an f-string renders it
IdText(id) == <<CHOOSE c \in DigitChars : DigitVal(c) = id>>

\* f"/app/lists/{list_id}"
ListPagePath(list_id) ==
    <<"/", "a", "p", "p", "/", "l", "i", "s", "t", "s", "/">> \o IdText(list_id)

LoginUrl == <<"/", "l", "o", "g", "i", "n">>

\* sum(1 for todo in todos if not todo.is_completed) over the todos the
\* page shows.  A variant counts every todo shown.
PageCount_all(found) == Len(found)

PageCount(found) ==
    Cardinality({i \in DOMAIN found : ~todos[found[i]].is_completed})

\* GET /app/lists/{list_id} with the cookie sent
app_list_page(cookie, list_id) ==
    /\ UNCHANGED <<store, now, auth>>
    /\ IF get_session(cookie) = <<>>
       THEN Respond("app_list_page", 302, "",
                    <<LoginPrefix \o ListPagePath(list_id)>>, NoCount)
       ELSE IF get_session(cookie)[1] \notin users
       THEN Respond("app_list_page", 302, "", <<LoginUrl>>, NoCount)
       ELSE IF ~(list_id \in DOMAIN lists
                 /\ lists[list_id].user_id = get_session(cookie)[1])
       THEN Respond("app_list_page", 302, "", <<AppUrl>>, NoCount)
       ELSE \E found \in TodosByPosition(TodosOf(list_id)) :
               Respond("app_list_page", 200, "", found, PageCount(found))

\* -------------------------------------------------- handlers step by step
\* A handler that reads, computes and commits runs in several steps when
\* other requests are served in between.  What it has read and what it has
\* assigned to its session's objects is kept in its record in pending; the
\* tables change when it commits.

\* create_todo up to the computation of new_pos
create_todo_read(req, user_id, list_id, title) ==
    /\ \A r \in pending : r.req # req
    /\ IF _verify_list_access(list_id, user_id) = <<>>
       THEN /\ Respond("create_todo", 404, "List not found", <<>>, NoCount)
            /\ UNCHANGED <<store, now, auth>>
       ELSE IF TitleError(title) # ""
       THEN /\ Respond("create_todo", 200, TitleError(title), <<>>, NoCount)
            /\ UNCHANGED <<store, now, auth>>
       ELSE LET max_pos ==
                   SqlMax({todos[t].position : t \in TodosOf(list_id)})
            IN  /\ pending' = pending \cup
                      {[req |-> req, op |-> "create_todo",
                        user_id |-> user_id, list_id |-> list_id,
                        text |-> strip(title),
                        new_pos |-> NextPosition(max_pos)]}
                /\ UNCHANGED <<store, now, response, accounts, sessions,
                               nextToken>>

\* create_todo from db.add(todo) on
create_todo_commit(r) ==
    /\ r \in pending /\ r.op = "create_todo"
    /\ todos' = (nextTodo :> NewTodo(r.list_id, r.text, r.new_pos)) @@ todos
    /\ nextTodo' = nextTodo + 1
    /\ pending' = pending \ {r}
    /\ Respond("create_todo", 200, "", <<nextTodo>>,
               IncompleteCount(todos', r.list_id))
    /\ UNCHANGED <<users, lists, nextList, now, accounts, sessions, nextToken>>

\* create_list up to the computation of new_pos
create_list_read(req, user_id, name) ==
    /\ \A r \in pending : r.req # req
    /\ IF NameError(name) # ""
       THEN /\ Respond("create_list", 200, NameError(name), <<>>, NoCount)
            /\ UNCHANGED <<store, now, auth>>
       ELSE LET max_pos ==
                   SqlMax({lists[l].position : l \in ListsOf(user_id)})
            IN  /\ pending' = pending \cup
                      {[req |-> req, op |-> "create_list",
                        user_id |-> user_id, list_id |-> 0,
                        text |-> strip(name),
                        new_pos |-> NextPosition(max_pos)]}
                /\ UNCHANGED <<store, now, response, accounts, sessions,
                               nextToken>>

\* create_list from db.add(new_list) on
create_list_commit(r) ==
    /\ r \in pending /\ r.op = "create_list"
    /\ lists' = (nextList :> [user_id |-> r.user_id, name |-> r.text,
                              position |-> r.new_pos]) @@ lists
    /\ nextList' = nextList + 1
    /\ pending' = pending \ {r}
    /\ Respond("create_list", 200, "", <<nextList>>, NoCount)
    /\ UNCHANGED <<users, todos, nextTodo, now, accounts, sessions, nextToken>>

\* The rows of table tbl with the positions assigned in changed.
WithPositions(tbl, changed) ==
    [x \in DOMAIN tbl |->
       IF x \in DOMAIN changed THEN [tbl[x] EXCEPT !.position = changed[x]]
       ELSE tbl[x]]

\* What the tables hold while a handler's loop assigns positions: the
\* assignments stay in the session until db.commit().  A variant commits
\* after every assignment.
CommittedInLoop_eachrow(tbl, changed) == WithPositions(tbl, changed)

CommittedInLoop(tbl, changed) == tbl

\* reorder_todo up to the query that loads the todos of the list
reorder_todo_begin(req, todo_id, user_id, position) ==
    /\ \A r \in pending : r.req # req
    /\ IF todo_id \notin DOMAIN todos
       THEN /\ Respond("reorder_todo", 404, "", <<>>, NoCount)
            /\ UNCHANGED <<store, now, auth>>
       ELSE IF _verify_list_access(todos[todo_id].list_id, user_id) = <<>>
       THEN /\ Respond("reorder_todo", 403, "", <<>>, NoCount)
            /\ UNCHANGED <<store, now, auth>>
       ELSE IF todos[todo_id].position =
                  NewPosition(position,
                              Cardinality(TodosOf(todos[todo_id].list_id)))
       THEN /\ Respond("reorder_todo", 200, "", <<todo_id>>, NoCount)
            /\ UNCHANGED <<store, now, auth>>
       ELSE \E rows \in TodosByPosition(TodosOf(todos[todo_id].list_id)) :
               /\ pending' = pending \cup
                     {[req |-> req, op |-> "reorder_todo",
                       user_id |-> user_id, target |-> todo_id,
                       old_position |-> todos[todo_id].position,
                       new_position |->
                          NewPosition(position,
                             Cardinality(TodosOf(todos[todo_id].list_id))),
                       rows |-> rows, done |-> 0, changed |-> <<>>]}
               /\ UNCHANGED <<store, now, response, accounts, sessions,
                              nextToken>>

\* one turn of the loop `for t in todos` of reorder_todo
reorder_todo_shift(r) ==
    /\ r \in pending /\ r.op = "reorder_todo" /\ r.done < Len(r.rows)
    /\ LET t == r.rows[r.done + 1]
           changed == (t :> ShiftedPosition(todos[t].position,
                                            r.old_position, r.new_position))
                         @@ r.changed
       IN  /\ pending' = (pending \ {r}) \cup
                            {[r EXCEPT !.done = r.done + 1,
                                       !.changed = changed]}
           /\ todos' = CommittedInLoop(todos, changed)
    /\ UNCHANGED <<users, lists, nextList, nextTodo, now, response, accounts,
                   sessions, nextToken>>

\* todo.position = new_position; db.commit(); return Response(200)
reorder_todo_commit(r) ==
    /\ r \in pending /\ r.op = "reorder_todo" /\ r.done = Len(r.rows)
    /\ todos' = WithPositions(todos,
                              (r.target :> r.new_position) @@ r.changed)
    /\ pending' = pending \ {r}
    /\ Respond("reorder_todo", 200, "", <<r.target>>, NoCount)
    /\ UNCHANGED <<users, lists, nextList, nextTodo, now, accounts, sessions,
                   nextToken>>

\* reorder_lists before its loop
reorder_lists_begin(req, user_id, list_id) ==
    /\ \A r \in pending : r.req # req
    /\ pending' = pending \cup
          {[req |-> req, op |-> "reorder_lists", user_id |-> user_id,
            target |-> 0, old_position |-> 0, new_position |-> 0,
            rows |-> list_id, done |-> 0, changed |-> <<>>]}
    /\ UNCHANGED <<store, now, response, accounts, sessions, nextToken>>

\* one turn of the loop `for position, lid in enumerate(list_id)`
reorder_lists_assign(r) ==
    /\ r \in pending /\ r.op = "reorder_lists" /\ r.done < Len(r.rows)
    /\ LET lid == r.rows[r.done + 1]
           changed == IF lid \in DOMAIN lists
                         /\ lists[lid].user_id = r.user_id
                      THEN (lid :> r.done) @@ r.changed
                      ELSE r.changed
       IN  /\ pending' = (pending \ {r}) \cup
                            {[r EXCEPT !.done = r.done + 1,
                                       !.changed = changed]}
           /\ lists' = CommittedInLoop(lists, changed)
    /\ UNCHANGED <<users, todos, nextList, nextTodo, now, response, accounts,
                   sessions, nextToken>>

\* db.commit() of reorder_lists and the sidebar it answers with
reorder_lists_commit(r) ==
    /\ r \in pending /\ r.op = "reorder_lists" /\ r.done = Len(r.rows)
    /\ lists' = WithPositions(lists, r.changed)
    /\ pending' = pending \ {r}
    /\ \E found \in ListsByPosition(lists', ListsOf(r.user_id)) :
          Respond("reorder_lists", 200, "", found, NoCount)
    /\ UNCHANGED <<users, todos, nextList, nextTodo, now, accounts, sessions,
                   nextToken>>

\* A request in flight fails before its commit: its session is closed, what
\* it assigned is dropped, and db_exception_handler answers 500.
request_fails(r) ==
    /\ r \in pending
    /\ pending' = pending \ {r}
    /\ Respond(r.op, 500, "Database error occurred", <<>>, NoCount)
    /\ UNCHANGED <<store, now, accounts, sessions, nextToken>>

\* ------------------------------------------------- store and environment
\* db.delete(user): the user row goes, and with it every list of the user
\* and every todo of those lists.
delete_user(user_id) ==
    /\ user_id \in users
    /\ users' = users \ {user_id}
    /\ lists' = [l \in DOMAIN lists \ ListsOf(user_id) |-> lists[l]]
    /\ todos' = CascadeTodos(ListsOf(user_id))
    /\ Respond("delete_user", 200, "", <<>>, NoCount)
    /\ UNCHANGED <<nextList, nextTodo, now>>

\* time passes between requests
Tick ==
    /\ now < MaxTime
    /\ now' = now + 1
    /\ UNCHANGED <<store, response>>

\* ------------------------------------------------------- specifications
NoResponse == [op |-> "none", status |-> 0, error |-> "",
               items |-> <<>>, count |-> NoCount]

\* request inputs
TitleA == <<"A">>
TitleB == <<"B">>
Blank  == <<" ">>

PosInputs == 0..MaxPos

\* A row inserted directly, as seed_demo_data and the test fixtures do:
\* Todo(list_id, title, priority, position), the rest at its default.
SeedTodo(list_id, title, priority, position) ==
    [NewTodo(list_id, title, position) EXCEPT !.priority = priority]

\* Two well-formed email addresses and the password of the seeded users.
EmailA == <<"a", "@", "x", ".", "y">>
EmailB == <<"b", "@", "x", ".", "y">>
Secret == <<"s", "e", "c", "r", "e", "t">>

\* The users table and the session store where nobody has signed in: every
\* registered user has an email of its own and a hashed password.
AuthIdle ==
    /\ accounts = [u \in UserIds |->
                     [email |-> IF u = 1 THEN EmailA ELSE EmailB,
                      password |-> hashpw(Secret, "s")]]
    /\ sessions = <<>>
    /\ nextToken = 1
    /\ pending = {}

\* The store of a fresh deployment with two registered users.
EmptyStore ==
    /\ users = UserIds
    /\ lists = <<>>
    /\ todos = <<>>
    /\ nextList = 1
    /\ nextTodo = 1

\* The store after seed_demo_data's first list: user 1 owns a list whose
\* three todos stand at positions 0, 1, 2 with priorities high, medium, low.
SeededStore ==
    /\ users = UserIds
    /\ lists = (1 :> [user_id |-> 1, name |-> TitleA, position |-> 0])
    /\ todos = (1 :> SeedTodo(1, TitleA, "high", 0)) @@
               (2 :> SeedTodo(1, TitleB, "medium", 1)) @@
               (3 :> SeedTodo(1, TitleA, "low", 2))
    /\ nextList = 2
    /\ nextTodo = 4

Init ==
    /\ EmptyStore \/ SeededStore
    /\ AuthIdle
    /\ now = 0
    /\ response = NoResponse

\* Positions: the requests of one user that create, delete and move
\* records.  Requests carry the identity of a stored user: the session
\* guard resolves it before a handler runs.
NextOrder ==
    \/ \E u \in {1} : nextList \in ListIds /\ create_list(u, TitleA)
          /\ UNCHANGED auth
    \/ \E u \in {1} : \E l \in ListIds :
          nextTodo <= MaxTodos /\ create_todo(u, l, TitleA)
          /\ UNCHANGED auth
    \/ \E u \in {1} : \E t \in TodoIds : delete_todo(t, u)
          /\ UNCHANGED auth
    \/ \E u \in {1} : \E t \in TodoIds : \E p \in PosInputs :
          reorder_todo(t, u, p)
          /\ UNCHANGED auth

SpecOrder == Init /\ [][NextOrder]_vars

\* The todo ids requests name where every handler runs.
AccessTodoIds == {1}

\* Every handler, requested by either user on every list and todo id, and
\* the deletion of a user.  Requests carry the identity of a stored user.
Next ==
    \/ \E u \in users : nextList \in ListIds /\ create_list(u, TitleA)
          /\ UNCHANGED auth
    \/ \E u \in users : get_lists(u)
          /\ UNCHANGED auth
    \/ \E u \in users : \E l \in ListIds : get_list(l, u)
          /\ UNCHANGED auth
    \/ \E u \in users : \E l \in ListIds : \E name \in {TitleB, Blank} :
          update_list(l, u, name)
          /\ UNCHANGED auth
    \/ \E u \in users : \E l \in ListIds : delete_list(l, u)
          /\ UNCHANGED auth
    \/ \E u \in users : \E seq \in {<<1, 2>>, <<2, 1>>} : reorder_lists(u, seq)
          /\ UNCHANGED auth
    \/ \E u \in users : \E l \in ListIds :
          nextTodo \in AccessTodoIds /\ create_todo(u, l, TitleA)
          /\ UNCHANGED auth
    \/ \E u \in users : \E l \in ListIds : search_todos(u, l, <<>>, "")
          /\ UNCHANGED auth
    \/ \E u \in users : \E l \in ListIds : \E t \in AccessTodoIds :
          get_todo(t, l, u)
          /\ UNCHANGED auth
    \/ \E u \in users : \E t \in AccessTodoIds :
          update_todo(t, u, TitleB, <<>>, <<>>, "high")
          /\ UNCHANGED auth
    \/ \E u \in users : \E t \in AccessTodoIds : toggle_todo(t, u)
          /\ UNCHANGED auth
    \/ \E u \in users : \E t \in AccessTodoIds : delete_todo(t, u)
          /\ UNCHANGED auth
    \/ \E u \in users : \E t \in AccessTodoIds : \E p \in {0, 1} :
          reorder_todo(t, u, p)
          /\ UNCHANGED auth
    \/ \E u \in users : delete_user(u)
          /\ UNCHANGED auth

\* the store of a fresh database, before any request
InitEmpty == EmptyStore /\ AuthIdle /\ now = 0 /\ response = NoResponse

Spec == InitEmpty /\ [][Next]_vars

\* One user's list under the requests that read or write the completion
\* fields of its todos, with time passing between requests.
NextToggle ==
    \/ \E u \in {1} : nextList = 1 /\ create_list(u, TitleA)
          /\ UNCHANGED auth
    \/ \E u \in {1} : nextTodo <= MaxToggled /\ create_todo(u, 1, TitleA)
          /\ UNCHANGED auth
    \/ \E u \in {1} : \E t \in TodoIds : toggle_todo(t, u)
          /\ UNCHANGED auth
    \/ \E u \in {1} : \E t \in TodoIds :
          update_todo(t, u, TitleB, <<>>, <<>>, "high")
          /\ UNCHANGED auth
    \/ \E u \in {1} : \E t \in TodoIds : reorder_todo(t, u, 1)
          /\ UNCHANGED auth
    \/ \E u \in {1} : search_todos(u, 1, <<>>, "")
          /\ UNCHANGED auth
    \/ Tick
          /\ UNCHANGED auth

SpecToggle == InitEmpty /\ [][NextToggle]_vars

\* The store of test_filter_handles_null_priority: a list with a todo of
\* priority low and a todo without priority.
NullPriorityStore ==
    /\ users = UserIds
    /\ lists = (1 :> [user_id |-> 1, name |-> TitleA, position |-> 0])
    /\ todos = (1 :> SeedTodo(1, TitleA, "low", 0))
                 @@ (2 :> SeedTodo(1, TitleB, NullPriority, 1))
    /\ nextList = 2
    /\ nextTodo = 3

\* the priority values requests send: the three recognised ones, none, and
\* an unrecognised token
PriorityInputs == {"", "low", "medium", "high", "urgent"}

NextSearch ==
    \/ \E u \in {1} : \E q \in {<<>>, Blank} : \E priority \in PriorityInputs :
          search_todos(u, 1, q, priority)
          /\ UNCHANGED auth
    \/ \E u \in {1} : nextTodo <= MaxTodos /\ create_todo(u, 1, TitleA)
          /\ UNCHANGED auth
    \/ \E u \in {1} : \E t \in TodoIds : \E priority \in PriorityInputs :
          update_todo(t, u, todos[t].title, <<>>, <<>>, priority)
          /\ UNCHANGED auth

InitSearch ==
    NullPriorityStore /\ AuthIdle /\ now = 0 /\ response = NoResponse

SpecSearch == InitSearch /\ [][NextSearch]_vars

\* The queries search requests send: none, blank, a letter in the other
\* case, a letter between blanks, two letters, and the two characters SQL
\* LIKE reads as wildcards.
QueryInputs == {<<>>, Blank, <<"a">>, <<" ", "b", " ">>, <<"A", "B">>,
                <<"_">>, <<"%">>}

TitleAB == <<"a", "B">>

\* a title sent with blanks around it
PaddedBa == <<" ", "B", "a", "\t">>

CreateTitles == {TitleA, TitleAB, PaddedBa}

\* Searches by either user of either list, by text and by priority, over
\* the lists and todos user 1 creates and reorders.
NextText ==
    \/ \E u \in UserIds : \E l \in ListIds : \E q \in QueryInputs :
          \E priority \in {"", "low", "high"} : search_todos(u, l, q, priority)
          /\ UNCHANGED auth
    \/ \E u \in {1} : nextList \in ListIds /\ create_list(u, TitleA)
          /\ UNCHANGED auth
    \/ \E u \in {1} : \E l \in ListIds : \E title \in CreateTitles :
          nextTodo <= MaxTodos /\ create_todo(u, l, title)
          /\ UNCHANGED auth
    \/ \E u \in {1} : \E t \in TodoIds : \E p \in PosInputs :
          reorder_todo(t, u, p)
          /\ UNCHANGED auth

SpecText == InitSearch /\ [][NextText]_vars

\* The store of the test_todo fixture: one list of user 1 with one todo
\* that has a note and no due date, of the given priority.
UpdateStore(priority) ==
    /\ users = UserIds
    /\ lists = (1 :> [user_id |-> 1, name |-> TitleA, position |-> 0])
    /\ todos = (1 :> [SeedTodo(1, TitleA, priority, 0)
                         EXCEPT !.note = <<TitleA>>])
    /\ nextList = 2
    /\ nextTodo = 2

InitUpdate ==
    /\ \E priority \in {"medium", NullPriority} : UpdateStore(priority)
    /\ AuthIdle
    /\ now = 0
    /\ response = NoResponse

\* The due_date form fields requests send.
DateOnly     == <<"2", "0", "2", "5", "-", "1", "2", "-", "3", "1">>
DateTime     == DateOnly \o <<"T", "1", "0", ":", "3", "0">>
LeapDateTime == <<"2", "0", "2", "4", "-", "0", "2", "-", "2", "9",
                  "T", "0", "0", ":", "0", "0">>
NoSuchDay    == <<"2", "0", "2", "5", "-", "0", "2", "-", "3", "0",
                  "T", "1", "0", ":", "3", "0">>
PaddedDateTime == <<" ">> \o DateTime

\* absent, empty, blank, and the texts above
DueInputs == {<<>>, <<<<>>>>, <<Blank>>, <<DateOnly>>, <<DateTime>>,
              <<LeapDateTime>>, <<NoSuchDay>>, <<PaddedDateTime>>}

PaddedB == <<" ", "B", " ">>

TitleInputs == {TitleB, PaddedB, Blank}

NoteInputs == {<<>>, <<Blank>>, <<TitleA>>}

UpdatePriorities == {"medium", "high", "urgent", ""}

\* The update requests sent: every note and due date with one title and
\* priority, every priority with two titles and a date without time or no
\* due date, and a blank title.
UpdateRequests ==
    [title : {PaddedB}, note : NoteInputs, due_date : DueInputs,
     priority : {"high"}]
    \cup [title : {TitleB, TitleAB}, note : {<<TitleA>>},
          due_date : {<<>>, <<DateOnly>>}, priority : UpdatePriorities]
    \cup [title : {Blank}, note : {<<>>}, due_date : {<<>>},
          priority : {"high"}]

\* Updates and reads of the todo by either user.
NextUpdate ==
    \/ \E u \in UserIds : \E t \in {1, 2} : \E r \in UpdateRequests :
          update_todo(t, u, r.title, r.note, r.due_date, r.priority)
          /\ UNCHANGED auth
    \/ \E u \in UserIds : \E t \in {1, 2} : get_todo(t, 1, u)
          /\ UNCHANGED auth

SpecUpdate == InitUpdate /\ [][NextUpdate]_vars

\* The sequences of list ids a reorder request sends: every arrangement of
\* two or more of the ids 1..MaxLists, each id at most once.
ReorderSeqs ==
    UNION {Perms(S) : S \in {T \in SUBSET (1..MaxLists) : Cardinality(T) >= 2}}

\* The lists of both users created, deleted and reordered.
NextLists ==
    \/ \E u \in UserIds : nextList <= MaxLists /\ create_list(u, TitleA)
          /\ UNCHANGED auth
    \/ \E u \in UserIds : \E l \in 1..MaxLists : delete_list(l, u)
          /\ UNCHANGED auth
    \/ \E u \in UserIds : \E seq \in ReorderSeqs : reorder_lists(u, seq)
          /\ UNCHANGED auth

SpecLists == InitEmpty /\ [][NextLists]_vars

\* Registration, login, logout and requests that carry a session cookie.
\* The users table starts empty or with the one user of the test fixture.
NoUsers == users = {} /\ accounts = <<>>

OneUser ==
    /\ users = {1}
    /\ accounts = (1 :> [email |-> EmailA, password |-> hashpw(Secret, "s")])

InitAuth ==
    /\ NoUsers \/ OneUser
    /\ lists = <<>> /\ todos = <<>> /\ nextList = 1 /\ nextTodo = 1
    /\ sessions = <<>> /\ nextToken = 1 /\ pending = {}
    /\ now = 0
    /\ response = NoResponse

NoAt   == <<"a", "x", ".", "y">>
NoDot  == <<"a", "@", "x">>
Short  == <<"a", "b", "c", "1", "2">>
Hunter == <<"h", "u", "n", "t", "e", "r">>

RegisterRequests ==
    [email : {EmailA, EmailB, NoAt, NoDot},
     password : {Short, Secret, Hunter},
     confirm_password : {Short, Secret}]

OffSite == <<"/", "/", "x">>
Scheme  == <<"/", "x", ":", "/", "/", "y">>
ListUrl == <<"/", "a", "p", "p", "/", "1">>
Absolute == <<"h", ":", "/", "/", "y">>

LoginRequests ==
    [email : {EmailA, EmailB, NoAt},
     password : {Secret, Hunter},
     next : {<<>>, ListUrl, OffSite, Scheme, Absolute}]

Cookies == {<<>>} \cup {<<t>> : t \in 1..MaxTokens}

NextAuth ==
    \/ \E r \in RegisterRequests :
          /\ nextToken <= MaxTokens
          /\ register(r.email, r.password, r.confirm_password)
    \/ \E r \in LoginRequests :
          /\ nextToken <= MaxTokens
          /\ login(r.email, r.password, r.next)
    \/ \E cookie \in Cookies : logout(cookie)
    \/ \E cookie \in Cookies : \E hx \in BOOLEAN : api_get_lists(cookie, hx)
    \/ \E cookie \in Cookies : \E hx \in BOOLEAN :
          /\ nextList \in ListIds
          /\ api_create_list(cookie, hx, TitleA)

SpecAuth == InitAuth /\ [][NextAuth]_vars

\* Two register requests whose steps interleave: each runs its checks, then
\* commits, and the other may run in between.
RaceRequests ==
    [email : {EmailA, EmailB, NoAt},
     password : {Secret, Hunter},
     confirm_password : {Secret}]

Requests == {1, 2}

InitRace ==
    /\ NoUsers
    /\ lists = <<>> /\ todos = <<>> /\ nextList = 1 /\ nextTodo = 1
    /\ sessions = <<>> /\ nextToken = 1 /\ pending = {}
    /\ now = 0
    /\ response = NoResponse

NextRace ==
    \/ \E req \in Requests : \E r \in RaceRequests :
          /\ nextToken <= MaxTokens
          /\ register_check(req, r.email, r.password, r.confirm_password)
    \/ \E r \in pending : register_commit(r)

SpecRace == InitRace /\ [][NextRace]_vars

\* Reordering in a store that two users share: user 1 owns lists 1 and 2,
\* user 2 owns list 3; todos 1 and 2 stand in list 1 and todo 3 in list 3.
\* Either user asks for any todo, or for one that is not stored, to be
\* moved to a position inside the list's range or outside it, and sends a
\* sequence of list ids.
FrameStore ==
    /\ users = UserIds
    /\ lists = (1 :> [user_id |-> 1, name |-> TitleA, position |-> 0]) @@
               (2 :> [user_id |-> 1, name |-> TitleB, position |-> 1]) @@
               (3 :> [user_id |-> 2, name |-> TitleA, position |-> 0])
    /\ todos = (1 :> NewTodo(1, TitleA, 0)) @@
               (2 :> SeedTodo(1, TitleB, "high", 1)) @@
               (3 :> NewTodo(3, TitleA, 0))
    /\ nextList = 4
    /\ nextTodo = 4

InitFrame == FrameStore /\ AuthIdle /\ now = 0 /\ response = NoResponse

\* positions below the list's range, inside it and beyond it
RangeInputs == {0 - 1, 0, 1, MaxPos + 1}

\* sequences that name lists of both users, in part and in full
FrameSeqs == {<<1, 2>>, <<2, 1>>, <<2, 3, 1>>, <<3, 1>>}

NextFrame ==
    \/ \E u \in UserIds : \E t \in 1..4 : \E p \in RangeInputs :
          reorder_todo(t, u, p)
          /\ UNCHANGED auth
    \/ \E u \in UserIds : \E seq \in FrameSeqs : reorder_lists(u, seq)
          /\ UNCHANGED auth

SpecFrame == InitFrame /\ [][NextFrame]_vars

\* The four requests addressed to one todo, sent by its owner and by the
\* other user, for a todo of each user and for an id that is not stored,
\* with titles that pass and titles that fail validation.
LongTitle == [i \in 1..(MaxTitleLen + 1) |-> "x"]

CheckRequests ==
    [title : {TitleB, Blank, LongTitle}, note : {<<>>}, due_date : {<<>>},
     priority : {"high", "urgent"}]

CheckTodoIds == {1, 3, 4}

NextChecks ==
    \/ \E u \in UserIds : \E t \in CheckTodoIds : \E r \in CheckRequests :
          update_todo(t, u, r.title, r.note, r.due_date, r.priority)
          /\ UNCHANGED auth
    \/ \E u \in UserIds : \E t \in CheckTodoIds : toggle_todo(t, u)
          /\ UNCHANGED auth
    \/ \E u \in UserIds : \E t \in CheckTodoIds : delete_todo(t, u)
          /\ UNCHANGED auth
    \/ \E u \in UserIds : \E t \in CheckTodoIds : \E p \in {0, 1} :
          reorder_todo(t, u, p)
          /\ UNCHANGED auth

SpecChecks == InitFrame /\ [][NextChecks]_vars

\* Names and titles at the edges of validation, sent by the owner when
\* lists and todos are created and updated: texts of the greatest length
\* allowed, longer ones, blank ones, and texts with blanks around them.
Xs(n) == [i \in 1..n |-> "x"]

FullName    == Xs(MaxNameLen)
PaddedName  == <<" ">> \o Xs(MaxNameLen - 1) \o <<" ">>
BlankName   == [i \in 1..(MaxNameLen + 1) |-> " "]
FullTitle   == Xs(MaxTitleLen)
PaddedTitle == <<" ">> \o Xs(MaxTitleLen - 1) \o <<"\t">>
BlankTitle  == [i \in 1..(MaxTitleLen + 1) |-> " "]

EdgeNames ==
    {TitleA, PaddedB, Blank, <<>>, FullName, Xs(MaxNameLen + 1), PaddedName,
     BlankName}

EdgeTitles ==
    {TitleA, PaddedB, Blank, <<>>, FullTitle, LongTitle, PaddedTitle,
     BlankTitle}

EdgeTodoIds == {1}

NextValid ==
    \/ \E u \in {1} : \E name \in EdgeNames :
          nextList \in ListIds /\ create_list(u, name)
          /\ UNCHANGED auth
    \/ \E u \in {1} : \E l \in ListIds : \E name \in EdgeNames :
          update_list(l, u, name)
          /\ UNCHANGED auth
    \/ \E u \in {1} : \E l \in ListIds : \E title \in EdgeTitles :
          nextTodo \in EdgeTodoIds /\ create_todo(u, l, title)
          /\ UNCHANGED auth
    \/ \E u \in {1} : \E t \in EdgeTodoIds : \E title \in EdgeTitles :
          update_todo(t, u, title, <<>>, <<>>, "low")
          /\ UNCHANGED auth

SpecValid == InitEmpty /\ [][NextValid]_vars

\* Pages and API requests with and without a session: user 1 is signed in
\* with token 1, as the authenticated_client fixture does; either user's
\* lists are created, user 1 adds and toggles todos, and the list page and
\* the list API are asked for with no cookie, token 1 and an unknown token.
InitPages ==
    /\ EmptyStore
    /\ accounts = [u \in UserIds |->
                     [email |-> IF u = 1 THEN EmailA ELSE EmailB,
                      password |-> hashpw(Secret, "s")]]
    /\ sessions = (1 :> 1) /\ nextToken = 2 /\ pending = {}
    /\ now = 0
    /\ response = NoResponse

PageCookies == {<<>>, <<1>>, <<2>>}

NextPages ==
    \/ \E u \in UserIds : nextList \in ListIds /\ create_list(u, TitleA)
          /\ UNCHANGED auth
    \/ \E u \in {1} : \E l \in ListIds :
          nextTodo <= MaxTodos /\ create_todo(u, l, TitleA)
          /\ UNCHANGED auth
    \/ \E u \in {1} : \E t \in TodoIds : toggle_todo(t, u)
          /\ UNCHANGED auth
    \/ \E cookie \in PageCookies : \E l \in ListIds : app_list_page(cookie, l)
    \/ \E cookie \in PageCookies : \E hx \in BOOLEAN :
          api_get_lists(cookie, hx)

SpecPages == InitPages /\ [][NextPages]_vars

\* Creating while other requests are served: each of two requests reads the
\* highest position of its sibling set and commits its record later, in any
\* order.  The store is the shared store of FrameStore: list 1 holds todos at
\* positions 0 and 1, list 2 holds none; user 1 owns lists at positions 0
\* and 1, user 2 one list at position 0.
NextCreate ==
    \/ \E req \in Requests : \E t \in {TitleA, Blank} :
          /\ nextTodo <= MaxTodos + 2
          /\ \E u \in UserIds : \E l \in {1, 2} : create_todo_read(req, u, l, t)
    \/ \E r \in pending : create_todo_commit(r)
    \/ \E req \in Requests : \E n \in {TitleA, Blank} :
          /\ nextList <= MaxLists + 1
          /\ \E u \in UserIds : create_list_read(req, u, n)
    \/ \E r \in pending : create_list_commit(r)

SpecCreate == InitFrame /\ [][NextCreate]_vars

\* Reordering while other requests are served: one request at a time moves
\* a todo or renumbers lists in the shared store of FrameStore, one turn of
\* its loop per step; it may fail before it commits; readers list the todos
\* and the lists in between.
NextReorder ==
    \/ \E u \in UserIds : \E t \in {1, 2, 4} : \E p \in {0, 1} :
          reorder_todo_begin(1, t, u, p)
    \/ \E r \in pending : reorder_todo_shift(r)
    \/ \E r \in pending : reorder_todo_commit(r)
    \/ \E u \in UserIds : \E seq \in FrameSeqs : reorder_lists_begin(1, u, seq)
    \/ \E r \in pending : reorder_lists_assign(r)
    \/ \E r \in pending : reorder_lists_commit(r)
    \/ \E r \in pending : request_fails(r)
    \/ \E u \in UserIds : search_todos(u, 1, <<>>, "")
          /\ UNCHANGED auth
    \/ \E u \in UserIds : get_lists(u)
          /\ UNCHANGED auth

SpecReorder == InitFrame /\ [][NextReorder]_vars

\* --------------------------------------------------------------- claims
\* The position values of the todos of list l in table tds are exactly
\* 0..n-1, each used once (n = number of todos of the list).
PositionsExact(tds, l) ==
    LET S == {t \in DOMAIN tds : tds[t].list_id = l}
    IN  /\ {tds[t].position : t \in S} = 0..(Cardinality(S) - 1)
        /\ \A a \in S : \A b \in S : tds[a].position = tds[b].position => a = b

\* The todo a reorder_todo response names, and the owner of its list.
Moved == response'.items[1]
OwnerOf(t) == lists[todos[t].list_id].user_id

\* A step is a successful reorder_todo.
ReorderStep == response'.op = "reorder_todo" /\ response'.status = 200

\* The step is the owner's successful reorder_todo(Moved, p) with
\* 0 <= p < n, n the number of todos in the list.
ValidReorder(p) ==
    /\ 0 <= p /\ p < Cardinality(TodosOf(todos[Moved].list_id))
    /\ reorder_todo(Moved, OwnerOf(Moved), p)

\* C1 as stated: after any reorder_todo(todo, new) with 0 <= new < n, in a
\* list reached by create_todo, delete_todo and reorder_todo requests, the
\* list's positions are exactly {0..n-1}, each used once, and the moved todo
\* is at new.
C1_AnyListReorderExact ==
    [][ReorderStep =>
          \A p \in PosInputs :
             ValidReorder(p) =>
                /\ PositionsExact(todos', todos[Moved].list_id)
                /\ todos'[Moved].position = p]_vars

\* C1 amended: when the list's positions are exactly {0..n-1}, each used
\* once, before reorder_todo(todo, new) with 0 <= new < n, they are exactly
\* {0..n-1}, each used once, after it, and the moved todo is at new.
C1_ReorderKeepsExact ==
    [][(ReorderStep /\ PositionsExact(todos, todos[Moved].list_id)) =>
          \A p \in PosInputs :
             ValidReorder(p) =>
                /\ PositionsExact(todos', todos[Moved].list_id)
                /\ todos'[Moved].position = p]_vars

\* C1 witness: a reorder_todo has moved a todo to position 0 of a list of
\* three todos whose positions are 0, 1, 2, the todo seeded at 0 now at 1.
C1_Witness ==
    /\ response.op = "reorder_todo" /\ response.status = 200
    /\ DOMAIN todos = {1, 2, 3}
    /\ PositionsExact(todos, 1)
    /\ todos[response.items[1]].position = 0
    /\ response.items[1] # 1
    /\ todos[1].position = 1

\* C2 as stated: reorder_todo of e from old to new (0 <= new < |S|) changes
\* nothing when old = new, decrements every other todo of S in (old, new]
\* when old < new, increments every other todo of S in [new, old) when
\* old > new, leaves e at new, and the set of position values of S after
\* the operation equals the set before it, no duplicate introduced.
ShiftsAsSpecified(p) ==
    LET e   == Moved
        old == todos[e].position
        S   == TodosOf(todos[e].list_id)
    IN  /\ old = p => todos' = todos
        /\ old < p => \A x \in S \ {e} :
              (old < todos[x].position /\ todos[x].position <= p) =>
                 todos'[x].position = todos[x].position - 1
        /\ old > p => \A x \in S \ {e} :
              (p <= todos[x].position /\ todos[x].position < old) =>
                 todos'[x].position = todos[x].position + 1
        /\ todos'[e].position = p

Distinct(tds, S) ==
    \A a \in S : \A b \in S : tds[a].position = tds[b].position => a = b

SamePositionSet ==
    LET S == TodosOf(todos[Moved].list_id)
    IN  /\ {todos'[x].position : x \in S} = {todos[x].position : x \in S}
        /\ Distinct(todos, S) => Distinct(todos', S)

C2_ShiftAndSameSet ==
    [][ReorderStep =>
          \A p \in PosInputs :
             ValidReorder(p) => (ShiftsAsSpecified(p) /\ SamePositionSet)]_vars

\* C2 amended: the shifts are as stated for every reorder_todo with
\* 0 <= new < |S|; the set of position values of S after the operation
\* equals the set before it (no duplicate, no gap introduced) when the
\* positions of S before it are exactly {0..|S|-1}, each used once.
C2_ShiftAndSameSetWhenExact ==
    [][ReorderStep =>
          \A p \in PosInputs :
             ValidReorder(p) =>
                /\ ShiftsAsSpecified(p)
                /\ PositionsExact(todos, todos[Moved].list_id) =>
                      SamePositionSet]_vars

\* C2 witness: a reorder_todo has moved a todo later, to position 2 of a
\* list of three todos, and the todo seeded at 2 has come down to 1.
C2_Witness ==
    /\ response.op = "reorder_todo" /\ response.status = 200
    /\ DOMAIN todos = {1, 2, 3}
    /\ PositionsExact(todos, 1)
    /\ response.items[1] # 3
    /\ todos[response.items[1]].position = 2
    /\ todos[3].position = 1

\* C3: create_list and create_todo give the new record position 1 + the
\* maximum position among its siblings before the request, 0 when it has
\* no sibling.
AppendedPosition(S) ==
    IF S = {} THEN 0 ELSE 1 + (CHOOSE m \in S : \A x \in S : x <= m)

Created == response'.items[1]

C3_CreateAppends ==
    [][/\ (response'.op = "create_todo" /\ response'.error = ""
           /\ response'.status = 200) =>
             todos'[Created].position =
                AppendedPosition({todos[t].position :
                                    t \in TodosOf(todos'[Created].list_id)})
       /\ (response'.op = "create_list" /\ response'.error = "") =>
             lists'[Created].position =
                AppendedPosition({lists[l].position :
                                    l \in ListsOf(lists'[Created].user_id)})
      ]_vars

\* C4: a request made with the identity of user A on a list or a todo of
\* another user (get, update, delete, toggle, reorder of a todo, search,
\* create a todo in the list) answers 404 or 403 and leaves every list
\* and every todo of the other users as it was; reorder_lists by A leaves
\* them as they were too.
ForeignList(A, l) == l \in DOMAIN lists /\ lists[l].user_id # A

ForeignTodo(A, t) == t \in DOMAIN todos /\ ForeignList(A, todos[t].list_id)

Denied == response'.status \in {403, 404}

KeptFrom(A) ==
    /\ \A l \in DOMAIN lists :
          ForeignList(A, l) => l \in DOMAIN lists' /\ lists'[l] = lists[l]
    /\ \A t \in DOMAIN todos :
          ForeignTodo(A, t) => t \in DOMAIN todos' /\ todos'[t] = todos[t]

ListRequest(A, l) ==
    \/ response'.op = "get_list" /\ get_list(l, A)
    \/ response'.op = "update_list"
          /\ \E name \in {TitleB, Blank} : update_list(l, A, name)
    \/ response'.op = "delete_list" /\ delete_list(l, A)
    \/ response'.op = "search_todos" /\ search_todos(A, l, <<>>, "")
    \/ response'.op = "create_todo" /\ create_todo(A, l, TitleA)
    \/ response'.op = "get_todo"
          /\ \E t \in AccessTodoIds : get_todo(t, l, A)

TodoRequest(A, t) ==
    \/ response'.op = "get_todo" /\ \E l \in ListIds : get_todo(t, l, A)
    \/ response'.op = "update_todo"
          /\ update_todo(t, A, TitleB, <<>>, <<>>, "high")
    \/ response'.op = "toggle_todo" /\ toggle_todo(t, A)
    \/ response'.op = "delete_todo" /\ delete_todo(t, A)
    \/ response'.op = "reorder_todo"
          /\ \E p \in {0, 1} : reorder_todo(t, A, p)

C4_OwnershipIsolation ==
    [][\A A \in users :
          /\ \A l \in ListIds :
                (ForeignList(A, l) /\ ListRequest(A, l)) =>
                    (Denied /\ KeptFrom(A))
          /\ \A t \in AccessTodoIds :
                (ForeignTodo(A, t) /\ TodoRequest(A, t)) =>
                    (Denied /\ KeptFrom(A))
          /\ (response'.op = "reorder_lists"
                /\ \E seq \in {<<1, 2>>, <<2, 1>>} : reorder_lists(A, seq)) =>
                    KeptFrom(A)
      ]_vars

\* A toggle was refused with 403 while the todo is stored: the requester
\* is not the owner of its list, and the todo is still incomplete.
C4_Witness ==
    /\ response.op = "toggle_todo" /\ response.status = 403
    /\ 1 \in DOMAIN todos
    /\ ~todos[1].is_completed
    /\ todos[1].title = TitleA

\* C5: get_list, update_list and delete_list answer user A 404 for a list
\* of another user exactly as for an id that is not stored, whatever the
\* name sent with update_list; and removing lists of other users (with
\* their todos) from the store changes none of the answers A gets, for any
\* list id.
Without(ls, G) == [l \in DOMAIN ls \ G |-> ls[l]]

TodosWithout(tds, G) ==
    [t \in {x \in DOMAIN tds : tds[x].list_id \notin G} |-> tds[t]]

LongName == [i \in 1..(MaxNameLen + 1) |-> "x"]

NameInputs == {TitleA, TitleB, Blank, <<>>, LongName}

ListAnswers(ls, tds, l, A) ==
    <<get_list_responses(ls, tds, l, A),
      [name \in NameInputs |-> update_list_response(ls, l, A, name)],
      delete_list_response(ls, l, A)>>

All404(ans) ==
    /\ \A r \in ans[1] : r.status = 404
    /\ \A name \in NameInputs : ans[2][name].status = 404
    /\ ans[3].status = 404

C5_ForeignListLooksMissing ==
    \A A \in users :
       LET foreign == {l \in DOMAIN lists : lists[l].user_id # A}
       IN  /\ \A l \in ListIds :
                (l \in foreign \/ l \notin DOMAIN lists) =>
                    All404(ListAnswers(lists, todos, l, A))
           /\ \A G \in SUBSET foreign : \A l \in ListIds :
                ListAnswers(Without(lists, G), TodosWithout(todos, G), l, A)
                   = ListAnswers(lists, todos, l, A)

\* update_list was answered 404 while both list ids are stored and owned
\* by different users: the list asked for was the other user's.
C5_Witness ==
    /\ response.op = "update_list" /\ response.status = 404
    /\ DOMAIN lists = ListIds
    /\ lists[1].user_id # lists[2].user_id
    /\ lists[1].user_id \in users /\ lists[2].user_id \in users

\* C6: get_todo answers 403 exactly when the list is stored but not owned
\* by the requester, 404 when the list is not stored or the todo is not in
\* it, and the todo otherwise.
ExpectedGetTodoStatus(t, l, u) ==
    IF l \in DOMAIN lists /\ lists[l].user_id # u THEN 403
    ELSE IF l \notin DOMAIN lists THEN 404
    ELSE IF ~(t \in DOMAIN todos /\ todos[t].list_id = l) THEN 404
    ELSE 200

C6_GetTodoStatus ==
    [][response'.op = "get_todo" =>
          \A u \in users : \A l \in ListIds : \A t \in AccessTodoIds :
             get_todo(t, l, u) =>
                /\ response'.status = ExpectedGetTodoStatus(t, l, u)
                /\ (response'.status = 200) = (response'.items = <<t>>)
      ]_vars

\* C7: a successful delete_list leaves no todo of the deleted list; the
\* deletion of a user leaves none of the user's lists and none of their
\* todos; and in every reachable state every todo refers to a stored list
\* and every list to a stored user.
ReferencesHold ==
    /\ \A t \in DOMAIN todos : todos[t].list_id \in DOMAIN lists
    /\ \A l \in DOMAIN lists : lists[l].user_id \in users

ListDeleted(l) ==
    /\ response'.op = "delete_list" /\ response'.status = 200
    /\ \E u \in users : delete_list(l, u)

UserDeleted(u) == response'.op = "delete_user" /\ delete_user(u)

C7_CascadeDelete ==
    /\ []ReferencesHold
    /\ [][/\ \A l \in ListIds :
                ListDeleted(l) =>
                    /\ l \notin DOMAIN lists'
                    /\ \A t \in DOMAIN todos' : todos'[t].list_id # l
          /\ \A u \in UserIds :
                UserDeleted(u) =>
                    /\ u \notin users'
                    /\ \A l \in DOMAIN lists' : lists'[l].user_id # u
                    /\ \A t \in DOMAIN todos' :
                          todos'[t].list_id \notin ListsOf(u)
         ]_vars

\* The last request deleted a list, the todo that was created is gone
\* with it, and the other user's list is still stored.
C7_Witness ==
    /\ response.op = "delete_list" /\ response.status = 200
    /\ nextTodo > 1 /\ todos = <<>>
    /\ Cardinality(DOMAIN lists) = 1
    /\ users = UserIds

\* C8: toggle_todo by the owner flips is_completed, sets completed_at to
\* the current time when the todo becomes complete and clears it when the
\* todo becomes incomplete; every todo created through create_todo has
\* completed_at present exactly when is_completed is true, in every
\* reachable state; and update_todo, reorder_todo and search_todos change
\* neither field of any todo.
StampMatchesFlag ==
    \A t \in DOMAIN todos :
       (todos[t].completed_at # NoTime) = todos[t].is_completed

\* a step of a request (the clock stands still), and one of a toggle
RequestStep == now' = now

ToggleStep ==
    RequestStep /\ response'.op = "toggle_todo" /\ response'.status = 200

SameCompletion ==
    /\ DOMAIN todos' = DOMAIN todos
    /\ \A t \in DOMAIN todos :
          /\ todos'[t].is_completed = todos[t].is_completed
          /\ todos'[t].completed_at = todos[t].completed_at

C8_ToggleSetsAndClears ==
    /\ []StampMatchesFlag
    /\ [][/\ ToggleStep =>
                LET t == response'.items[1]
                IN  /\ todos'[t].is_completed = ~todos[t].is_completed
                    /\ todos'[t].completed_at =
                          IF todos'[t].is_completed THEN now ELSE NoTime
                    /\ \A o \in DOMAIN todos \ {t} : todos'[o] = todos[o]
          /\ (RequestStep /\ response'.op \in
                  {"update_todo", "reorder_todo", "search_todos"})
                => SameCompletion
         ]_vars

\* A todo completed at time 0 has since been updated, and later the other
\* todo was toggled back to incomplete: the first keeps flag and time.
C8_Witness ==
    /\ response.op = "toggle_todo" /\ response.status = 200
    /\ DOMAIN todos = {1, 2}
    /\ ~todos[response.items[1]].is_completed
    /\ \E t \in DOMAIN todos :
          /\ todos[t].is_completed /\ todos[t].completed_at = 0
          /\ todos[t].title = TitleB
    /\ now > 0

\* C9: for every stored todo, complete or not, toggle_todo applied twice
\* (at the current or any later times) gives is_completed and completed_at
\* the values they had before the first application.
LaterTimes == {p \in (now..MaxTime) \X (now..MaxTime) : p[1] <= p[2]}

ToggledTwice(todo, p) == Toggled(Toggled(todo, p[1]), p[2])

C9_ToggleTwiceRestores ==
    \A t \in DOMAIN todos : \A p \in LaterTimes :
       /\ ToggledTwice(todos[t], p).is_completed = todos[t].is_completed
       /\ ToggledTwice(todos[t], p).completed_at = todos[t].completed_at

\* As the code has it: twice toggled, the flag is as before; an incomplete
\* todo is again without completed_at; a complete todo carries the time of
\* the second toggle, not the time it was completed at.
C9_ToggleTwiceRestamps ==
    /\ [][ToggleStep =>
             todos'[response'.items[1]] =
                Toggled(todos[response'.items[1]], now)]_vars
    /\ [](\A t \in DOMAIN todos : \A p \in LaterTimes :
            /\ ToggledTwice(todos[t], p).is_completed = todos[t].is_completed
            /\ ToggledTwice(todos[t], p).completed_at =
                  IF todos[t].is_completed THEN p[2] ELSE NoTime
            /\ ToggledTwice(todos[t], p) =
                  [todos[t] EXCEPT !.completed_at =
                      ToggledTwice(todos[t], p).completed_at])

\* A todo completed at time 0 is stored at a later time, right after the
\* other todo was toggled to incomplete: toggled twice now, the first gets
\* a time that is not 0.
C9_Witness ==
    /\ response.op = "toggle_todo" /\ response.status = 200
    /\ now > 0
    /\ ~todos[response.items[1]].is_completed
    /\ todos[response.items[1]].completed_at = NoTime
    /\ \E t \in DOMAIN todos \ {response.items[1]} :
          todos[t].is_completed /\ todos[t].completed_at < now

\* C10: search_todos on an owned list with priority low, medium or high
\* returns exactly the todos of the list with that priority (none without
\* priority); with any other priority value it returns the todos of every
\* priority, those without priority included.
ExpectedByPriority(l, priority) ==
    IF priority \in Priorities
    THEN {t \in TodosOf(l) : todos[t].priority = priority}
    ELSE TodosOf(l)

Returned == {response'.items[i] : i \in DOMAIN response'.items}

C10_PriorityFilter ==
    [][(response'.op = "search_todos" /\ response'.status = 200) =>
          \A q \in {<<>>, Blank} : \A priority \in PriorityInputs :
             search_todos(1, 1, q, priority) =>
                /\ Returned = ExpectedByPriority(1, priority)
                /\ Len(response'.items) = Cardinality(Returned)
      ]_vars

\* A search returned the todo of priority low alone while the list also
\* holds a todo without priority and a todo of priority high.
C10_Witness ==
    /\ response.op = "search_todos" /\ response.status = 200
    /\ response.items = <<1>>
    /\ DOMAIN todos = {1, 2, 3}
    /\ todos[1].priority = "low"
    /\ todos[2].priority = NullPriority
    /\ todos[3].priority = "high"

\* C11: search_todos returns only todos of the requested list; a query
\* that is not empty once trimmed keeps exactly the todos whose title
\* contains it as a substring, letter case ignored, and an empty or blank
\* query keeps all; query and priority filter compose with AND; the result
\* is in ascending order of position; a list the requester does not own
\* answers 404.
LowerAll(s) == [i \in DOMAIN s |-> Lower(s[i])]

ContainsIgnoringCase(title, q) ==
    \E i \in 1..(Len(title) - Len(q) + 1) :
       SubSeq(LowerAll(title), i, i + Len(q) - 1) = LowerAll(q)

ExpectedSearch(l, q, priority) ==
    {t \in TodosOf(l) :
        /\ strip(q) # <<>> => ContainsIgnoringCase(todos[t].title, strip(q))
        /\ priority \in Priorities => todos[t].priority = priority}

AscendingByPosition(items) ==
    \A i \in 1..(Len(items) - 1) :
       todos[items[i]].position <= todos[items[i + 1]].position

C11_SearchByTitle ==
    [][response'.op = "search_todos" =>
          \A u \in UserIds : \A l \in ListIds : \A q \in QueryInputs :
             \A priority \in {"", "low", "high"} :
                search_todos(u, l, q, priority) =>
                   IF l \in ListsOf(u)
                   THEN /\ response'.status = 200
                        /\ Returned = ExpectedSearch(l, q, priority)
                        /\ Len(response'.items) = Cardinality(Returned)
                        /\ AscendingByPosition(response'.items)
                   ELSE response'.status = 404 /\ response'.items = <<>>
      ]_vars

\* C12: update_todo with a due_date field that is not empty but does not
\* parse leaves the due date of the todo as it was, while title, note and
\* priority are updated and no error is answered; an empty, blank or absent
\* field clears the due date; a well-formed field sets the parsed value.
UpdateStep ==
    /\ response'.op = "update_todo"
    /\ response'.status = 200 /\ response'.error = ""

\* the well-formed fields among the inputs, and the values they denote
WellFormed == {DateTime, LeapDateTime}

Denoted(text) ==
    IF text = DateTime
    THEN [year |-> 2025, month |-> 12, day |-> 31, hour |-> 10, minute |-> 30]
    ELSE [year |-> 2024, month |-> 2, day |-> 29, hour |-> 0, minute |-> 0]

ExpectedDueDate(due_date, existing) ==
    IF due_date = <<>> \/ due_date[1] \in {<<>>, Blank} THEN <<>>
    ELSE IF due_date[1] \in WellFormed THEN <<Denoted(due_date[1])>>
    ELSE existing

\* the other fields of todo t after a successful update
OthersUpdated(t, title, note, priority) ==
    /\ todos'[t].title = (IF title = PaddedB THEN TitleB ELSE title)
    /\ todos'[t].note = (IF note = <<>> THEN <<>>
                         ELSE IF note[1] = Blank THEN <<<<>>>> ELSE note)
    /\ todos'[t].priority = (IF priority \in Priorities THEN priority
                             ELSE "low")

C13_DateOnlyStored ==
    [][UpdateStep =>
          \A u \in UserIds : \A t \in DOMAIN todos : \A r \in UpdateRequests :
             (/\ todos[t].due_date = <<>>
              /\ r.due_date = <<DateOnly>>
              /\ update_todo(t, u, r.title, r.note, r.due_date, r.priority)) =>
                /\ OthersUpdated(t, r.title, r.note, r.priority)
                /\ todos'[t].due_date # <<>>
                /\ todos'[t].due_date[1].year = 2025
      ]_vars

\* C14: update_todo with a priority outside low, medium, high does not
\* fail and stores low; after every successful update_todo the priority of
\* the todo is one of low, medium, high.
C14_PriorityCoerced ==
    [][response'.op = "update_todo" =>
          \A u \in UserIds : \A t \in DOMAIN todos : \A r \in UpdateRequests :
             (/\ lists[todos[t].list_id].user_id = u
              /\ r.title # Blank
              /\ update_todo(t, u, r.title, r.note, r.due_date, r.priority)) =>
                /\ UpdateStep
                /\ todos'[t].priority \in Priorities
                /\ r.priority \notin Priorities => todos'[t].priority = "low"
      ]_vars

\* The todo that started without priority, or with medium, has priority
\* low after an update: no request sent low, so the value was coerced.
C14_Witness ==
    /\ response.op = "update_todo" /\ response.status = 200
    /\ response.error = ""
    /\ todos[1].priority = "low"
    /\ todos[1].due_date = <<Denoted(DateTime)>>

\* C15: a todo created through create_todo belongs to the list named in
\* the request, has the title of the request without the blanks around it,
\* priority low, is not completed and has no completed_at.
AllBlank(s) == \A i \in DOMAIN s : IsSpace(s[i])

IsTrimOf(r, s) ==
    /\ r # <<>> => ~IsSpace(r[1]) /\ ~IsSpace(r[Len(r)])
    /\ \E a \in 0..Len(s) :
          /\ a + Len(r) <= Len(s)
          /\ SubSeq(s, a + 1, a + Len(r)) = r
          /\ AllBlank(SubSeq(s, 1, a))
          /\ AllBlank(SubSeq(s, a + Len(r) + 1, Len(s)))

C15_CreatedTodoFields ==
    [][(response'.op = "create_todo" /\ response'.status = 200
          /\ response'.error = "") =>
          \A l \in ListIds : \A title \in CreateTitles :
             create_todo(1, l, title) =>
                /\ Created \notin DOMAIN todos
                /\ todos'[Created].list_id = l
                /\ IsTrimOf(todos'[Created].title, title)
                /\ todos'[Created].priority = "low"
                /\ ~todos'[Created].is_completed
                /\ todos'[Created].completed_at = NoTime
                /\ \A t \in DOMAIN todos : todos'[t] = todos[t]
      ]_vars

\* The last request created todo 3 in the second list from the title sent
\* with blanks around it.
C15_Witness ==
    /\ response.op = "create_todo" /\ response.status = 200
    /\ response.items = <<3>>
    /\ todos[3].list_id = 2
    /\ todos[3].title = <<"B", "a">>
    /\ todos[3].priority = "low"

\* C20: reorder_lists gives each list of the user the position equal to
\* its index in the sequence when the sequence is the full ordering of the
\* user's n lists; ids of the sequence that are not lists of the user are
\* skipped without error, and when the remaining ids are the user's n
\* lists, these end with positions 0..n-1 in sequence order.
OwnIds(seq, u) == SelectSeq(seq, LAMBDA l : l \in ListsOf(u))

IsOrderingOf(seq, S) ==
    /\ Len(seq) = Cardinality(S)
    /\ {seq[i] : i \in DOMAIN seq} = S

C20_ReorderListsRenumbers ==
    [][response'.op = "reorder_lists" =>
          \A u \in UserIds : \A seq \in ReorderSeqs :
             (/\ IsOrderingOf(OwnIds(seq, u), ListsOf(u))
              /\ reorder_lists(u, seq)) =>
                /\ response'.status = 200
                /\ \A i \in DOMAIN OwnIds(seq, u) :
                      lists'[OwnIds(seq, u)[i]].position = i - 1
                /\ response'.items = OwnIds(seq, u)
                /\ \A l \in DOMAIN lists \ ListsOf(u) : lists'[l] = lists[l]
      ]_vars

\* C16: register answers with the first check that fails, in the order
\* email format, password length, confirmation, email taken, and then adds
\* no user and no session; otherwise it adds exactly one user with the
\* email, whose stored password is a salted hash that is not the password
\* sent, and one session for that user.
RegisterFailure(r) ==
    IF ~ValidEmail(r.email) THEN "Invalid email format"
    ELSE IF Len(r.password) < 6
    THEN "Password must be at least 6 characters"
    ELSE IF r.password # r.confirm_password THEN "Passwords do not match"
    ELSE IF \E u \in users : accounts[u].email = r.email
    THEN "Email already registered"
    ELSE ""

C16_RegisterContract ==
    [][\A r \in RegisterRequests :
          register(r.email, r.password, r.confirm_password) =>
             IF RegisterFailure(r) # ""
             THEN /\ response'.error = RegisterFailure(r)
                  /\ users' = users /\ accounts' = accounts
                  /\ sessions' = sessions
             ELSE /\ response'.error = ""
                  /\ \E u \in users' \ users :
                        /\ users' = users \cup {u}
                        /\ \A v \in users : accounts'[v] = accounts[v]
                        /\ accounts'[u].email = r.email
                        /\ accounts'[u].password # r.password
                        /\ \E salt \in Salts :
                              /\ accounts'[u].password[2] = salt
                              /\ checkpw(r.password, accounts'[u].password)
                        /\ \E t \in DOMAIN sessions' \ DOMAIN sessions :
                              /\ sessions' = (t :> u) @@ sessions
                              /\ response'.items[1] = t]_vars

C16_Witness ==
    /\ response.op = "register" /\ response.error = ""
    /\ users = {1, 2}
    /\ accounts[2].email = EmailB
    /\ \E t \in DOMAIN sessions : sessions[t] = 2 /\ response.items[1] = t

\* C17: whatever register requests run, one after the other or with the
\* checks of two of them ahead of both commits, no two stored users have
\* the same email.
C17_EmailsUnique ==
    \A u \in users : \A v \in users :
       accounts[u].email = accounts[v].email => u = v

\* Two requests for one email both passed their checks; one was stored and
\* the commit of the other was refused.
C17_Witness ==
    /\ response.op = "register" /\ response.status = 500
    /\ pending = {}
    /\ Cardinality(users) = 1

\* C18: a login that names no registered email and a login that names a
\* registered email with a wrong password get one and the same answer, and
\* neither creates a session: the answer to a login with a wrong password
\* is an answer the same request gets from the store without that user.
WrongPassword(r, u) ==
    /\ u \in users
    /\ accounts[u].email = r.email
    /\ ~checkpw(r.password, accounts[u].password)

UnknownEmail(r) ==
    ValidEmail(r.email) /\ \A u \in users : accounts[u].email # r.email

C18_GenericLoginFailure ==
    [][\A r \in LoginRequests :
          login(r.email, r.password, r.next) =>
             /\ \A u \in users :
                   WrongPassword(r, u) =>
                      /\ response' \in
                            {Resp("login", 200, a.error, <<>>, NoCount) :
                               a \in login_answers(accounts, users \ {u},
                                                   r.email, r.password)}
                      /\ response'.error # ""
                      /\ sessions' = sessions /\ nextToken' = nextToken
             /\ UnknownEmail(r) =>
                   /\ response'.error = "Invalid email or password"
                   /\ response'.status = 200 /\ response'.items = <<>>
                   /\ sessions' = sessions /\ nextToken' = nextToken]_vars

\* A login has failed where a user is registered and nobody is signed in.
C18_Witness ==
    /\ response.op = "login"
    /\ response.error = "Invalid email or password"
    /\ users = {1}
    /\ accounts[1].email = EmailA
    /\ sessions = <<>>

\* C19: a token handed out by login or register is new and stands for the
\* user who signed in; it keeps standing for that user through every step
\* but a logout that carries it; a logout that carries it removes it and no
\* other; a token that was removed is not stored again; a request is
\* served as the user its token stands for, and refused when its cookie is
\* no stored token; logout with no cookie or an unknown token answers 200
\* without an error and leaves every session as it was.
Handed(t) == t \in 1..(nextToken - 1)

C19_SessionLifecycle ==
    [][/\ \A t \in DOMAIN sessions :
             \/ t \in DOMAIN sessions' /\ sessions'[t] = sessions[t]
             \/ logout(<<t>>)
       /\ \A t \in 1..MaxTokens :
             /\ Handed(t) => Handed(t)'
             /\ Handed(t) /\ t \notin DOMAIN sessions
                   => t \notin DOMAIN sessions'
             /\ t \in DOMAIN sessions' \ DOMAIN sessions =>
                   /\ response'.op \in {"login", "register"}
                   /\ response'.error = "" /\ response'.items[1] = t
                   /\ ~Handed(t) /\ Handed(t)'
                   /\ sessions'[t] \in users'
       /\ \A r \in LoginRequests :
             login(r.email, r.password, r.next) /\ response'.error = "" =>
                \E t \in DOMAIN sessions' \ DOMAIN sessions :
                   /\ accounts[sessions'[t]].email = r.email
                   /\ checkpw(r.password, accounts[sessions'[t]].password)
       /\ \A cookie \in Cookies :
             /\ logout(cookie) =>
                   /\ response'.status = 200 /\ response'.error = ""
                   /\ \A t \in DOMAIN sessions :
                         t \in DOMAIN sessions' <=> cookie # <<t>>
                   /\ DOMAIN sessions' \subseteq DOMAIN sessions
                   /\ UNCHANGED <<store, accounts>>
             /\ \A hx \in BOOLEAN :
                   api_get_lists(cookie, hx) =>
                      IF cookie # <<>> /\ cookie[1] \in DOMAIN sessions
                      THEN get_lists(sessions[cookie[1]])
                      ELSE /\ response'.status = (IF hx THEN 401 ELSE 302)
                           /\ UNCHANGED store
             /\ \A hx \in BOOLEAN :
                   api_create_list(cookie, hx, TitleA) =>
                      IF cookie # <<>> /\ cookie[1] \in DOMAIN sessions
                      THEN create_list(sessions[cookie[1]], TitleA)
                      ELSE /\ response'.status = (IF hx THEN 401 ELSE 302)
                           /\ UNCHANGED store]_vars

\* Token 1 was handed out and given up, token 2 is stored, and a request
\* has just been refused.
C19_Witness ==
    /\ nextToken = 3
    /\ DOMAIN sessions = {2}
    /\ response.op = "get_lists" /\ response.status = 401

\* C27: reorder_todo checks no range: when the owner asks for a position
\* that differs from the todo's own, be it negative or beyond the last
\* todo of the list, the answer is 200 and the todo stands at that
\* position afterwards.
C27_NoRangeCheck ==
    [][\A t \in DOMAIN todos : \A p \in RangeInputs :
          (p # todos[t].position /\ reorder_todo(t, OwnerOf(t), p)) =>
             /\ response'.status = 200
             /\ todos'[t].position = p]_vars

\* A todo of list 1 stands below 0 and another stands beyond the last
\* place of the list.
C27_Witness ==
    /\ response.op = "reorder_todo" /\ response.status = 200
    /\ \E t \in TodosOf(1) : todos[t].position < 0
    /\ \E t \in TodosOf(1) : todos[t].position >= Cardinality(TodosOf(1))

\* C28: reorder_todo changes nothing but the position of todos of the
\* moved todo's list: no todo appears or disappears, no todo of another
\* list changes, no other field changes, no list changes.  reorder_lists
\* changes nothing but the position of lists that the requesting user owns
\* and that the sequence names.
OnlyPositionDiffers(old, new) == [new EXCEPT !.position = old.position] = old

C28_ReorderFrame ==
    [][/\ \A u \in UserIds : \A t \in 1..4 : \A p \in RangeInputs :
             reorder_todo(t, u, p) =>
                /\ DOMAIN todos' = DOMAIN todos
                /\ \A x \in DOMAIN todos :
                      /\ OnlyPositionDiffers(todos[x], todos'[x])
                      /\ todos'[x] # todos[x] =>
                            /\ t \in DOMAIN todos
                            /\ todos[x].list_id = todos[t].list_id
                            /\ OwnerOf(t) = u
                /\ lists' = lists /\ users' = users
       /\ \A u \in UserIds : \A seq \in FrameSeqs :
             reorder_lists(u, seq) =>
                /\ DOMAIN lists' = DOMAIN lists
                /\ \A l \in DOMAIN lists :
                      /\ OnlyPositionDiffers(lists[l], lists'[l])
                      /\ lists'[l] # lists[l] =>
                            /\ lists[l].user_id = u
                            /\ \E i \in DOMAIN seq : seq[i] = l
                /\ todos' = todos /\ users' = users]_vars

\* Both kinds of reorder have acted: todo 2 has left its place in list 1
\* and list 2 stands ahead of list 1, while user 2's rows are where they
\* were.
C28_Witness ==
    /\ response.op \in {"reorder_todo", "reorder_lists"}
    /\ todos[2].position # 1
    /\ lists[2].position < lists[1].position
    /\ todos[3].position = 0 /\ lists[3].position = 0

\* C29: update_todo, toggle_todo, delete_todo and reorder_todo answer 404
\* for a todo that is not stored; for a stored todo whose list the
\* requester does not own they answer 403, whatever title, priority or
\* position is sent, and change nothing; an owner's update with a title
\* that fails validation gets the validation answer, not 403 or 404.
TodoStep(u, t) ==
    \/ /\ response'.op = "update_todo"
       /\ \E r \in CheckRequests :
             update_todo(t, u, r.title, r.note, r.due_date, r.priority)
    \/ response'.op = "toggle_todo" /\ toggle_todo(t, u)
    \/ response'.op = "delete_todo" /\ delete_todo(t, u)
    \/ /\ response'.op = "reorder_todo"
       /\ \E p \in {0, 1} : reorder_todo(t, u, p)

C29_CheckOrder ==
    [][\A u \in UserIds : \A t \in CheckTodoIds :
          /\ TodoStep(u, t) =>
                IF t \notin DOMAIN todos
                THEN response'.status = 404 /\ UNCHANGED store
                ELSE OwnerOf(t) # u =>
                        response'.status = 403 /\ UNCHANGED store
          /\ \A r \in CheckRequests :
                (/\ t \in DOMAIN todos /\ OwnerOf(t) = u
                 /\ r.title \in {Blank, LongTitle}
                 /\ response'.op = "update_todo"
                 /\ update_todo(t, u, r.title, r.note, r.due_date,
                                r.priority)) =>
                   /\ response'.status = 200 /\ response'.error # ""
                   /\ UNCHANGED store]_vars

\* The other user's update has been refused although todo 1 is stored in
\* a list of user 1.
C29_Witness ==
    /\ response.op = "update_todo" /\ response.status = 403
    /\ 1 \in DOMAIN todos /\ 3 \in DOMAIN todos

\* C30: a login that succeeds redirects to the next value sent when that
\* value is not empty, starts with one '/', does not start with '//' and
\* holds no '://', and to '/app' in every other case; a login that fails
\* carries no redirect and no session token.
StartsWith(url, prefix) ==
    Len(url) >= Len(prefix) /\ SubSeq(url, 1, Len(prefix)) = prefix

Holds(url, part) ==
    \E i \in 1..(Len(url) - Len(part) + 1) :
       SubSeq(url, i, i + Len(part) - 1) = part

LocalPath(url) ==
    /\ url # <<>>
    /\ StartsWith(url, <<"/">>)
    /\ ~StartsWith(url, <<"/", "/">>)
    /\ ~Holds(url, <<":", "/", "/">>)

ExpectedTextError(text, limit, required, toolong) ==
    IF AllBlank(text) THEN required
    ELSE IF Len(text) > limit THEN toolong
    ELSE ""

ExpectedNameError(name) ==
    ExpectedTextError(name, 100, "Name is required",
                      "Name must be 100 characters or less")

ExpectedTitleError(title) ==
    ExpectedTextError(title, 200, "Title is required",
                      "Title must be 200 characters or less")

Trimmed(text, limit) ==
    /\ Len(text) \in 1..limit
    /\ ~IsSpace(text[1]) /\ ~IsSpace(text[Len(text)])

StoredTextValid ==
    /\ \A l \in DOMAIN lists : Trimmed(lists[l].name, 100)
    /\ \A t \in DOMAIN todos : Trimmed(todos[t].title, 200)

C23_TextValidation ==
    [][/\ StoredTextValid'
       /\ response'.op = "create_list" =>
             \A name \in EdgeNames :
                create_list(1, name) =>
                   /\ response'.error = ExpectedNameError(name)
                   /\ IF ExpectedNameError(name) # "" THEN UNCHANGED store
                      ELSE IsTrimOf(lists'[nextList].name, name)
       /\ response'.op = "update_list" =>
             \A name \in EdgeNames : \A l \in DOMAIN lists :
                update_list(l, 1, name) =>
                   /\ response'.error = ExpectedNameError(name)
                   /\ IF ExpectedNameError(name) # "" THEN UNCHANGED store
                      ELSE IsTrimOf(lists'[l].name, name)
       /\ response'.op = "create_todo" =>
             \A title \in EdgeTitles : \A l \in DOMAIN lists :
                create_todo(1, l, title) =>
                   /\ response'.error = ExpectedTitleError(title)
                   /\ IF ExpectedTitleError(title) # "" THEN UNCHANGED store
                      ELSE IsTrimOf(todos'[nextTodo].title, title)
       /\ response'.op = "update_todo" =>
             \A title \in EdgeTitles : \A t \in DOMAIN todos :
                update_todo(t, 1, title, <<>>, <<>>, "low") =>
                   /\ response'.error = ExpectedTitleError(title)
                   /\ IF ExpectedTitleError(title) # "" THEN UNCHANGED store
                      ELSE IsTrimOf(todos'[t].title, title)]_vars

\* A name of 100 and a title of 200 characters are stored, and the last
\* request was turned down for its text.
C23_Witness ==
    /\ response.error \in {"Name must be 100 characters or less",
                           "Title must be 200 characters or less"}
    /\ \E l \in DOMAIN lists : Len(lists[l].name) = 100
    /\ \E t \in DOMAIN todos : Len(todos[t].title) = 200

\* C24: every request that changes the number of incomplete todos of a
\* list answers 200 with the count for the title of that list: a
\* successful delete_todo does, like a successful create_todo and
\* toggle_todo.
CountChanged(l) == IncompleteCount(todos', l) # IncompleteCount(todos, l)

C24_CountChangeAnswersWithCount ==
    [][\A l \in DOMAIN lists \cap DOMAIN lists' :
          CountChanged(l) =>
             /\ response'.status = 200
             /\ response'.count = IncompleteCount(todos', l)]_vars

\* C25: the count that create_todo, toggle_todo and the list page hand to
\* the templates is the number of todos of that list that are not
\* completed in the state after the request: 3 for three incomplete
\* todos, 0 for none, and todos of other lists are not counted.
IncompleteIn(l) ==
    Cardinality({t \in DOMAIN todos' :
                   todos'[t].list_id = l /\ todos'[t].is_completed = FALSE})

C25_IncompleteCount ==
    [][/\ (/\ response'.op \in {"create_todo", "toggle_todo"}
           /\ response'.status = 200 /\ response'.error = "") =>
             response'.count = IncompleteIn(todos'[response'.items[1]].list_id)
       /\ \A cookie \in PageCookies : \A l \in ListIds :
             (app_list_page(cookie, l) /\ response'.status = 200) =>
                response'.count = IncompleteIn(l)]_vars

\* The page of list 1 shows two todos of which one is incomplete, while
\* list 2 holds an incomplete todo of its own.
C25_Witness ==
    /\ response.op = "app_list_page" /\ response.status = 200
    /\ Len(response.items) = 2 /\ response.count = 1
    /\ \A i \in 1..2 : todos[response.items[i]].list_id = 1
    /\ \E t \in DOMAIN todos : todos[t].list_id = 2 /\ ~todos[t].is_completed

\* C26: a request for the page of a list that carries no stored session
\* token is answered with a 302 redirect to /login?next=/app/lists/{id}
\* and with no list or todo; a request to an /api/ path that carries none
\* is sent to /login?next=/app and gets no list either; neither changes
\* the store.
NoSession(cookie) == cookie = <<>> \/ cookie[1] \notin DOMAIN sessions

LoginNextApp ==
    <<"/", "l", "o", "g", "i", "n", "?", "n", "e", "x", "t", "=",
      "/", "a", "p", "p">>

LoginNextList(l) ==
    LoginNextApp \o <<"/", "l", "i", "s", "t", "s", "/">>
       \o <<IF l = 1 THEN "1" ELSE "2">>

C26_ProtectedPages ==
    [][\A cookie \in PageCookies :
          NoSession(cookie) =>
             /\ \A l \in ListIds :
                   app_list_page(cookie, l) =>
                      /\ response'.status = 302
                      /\ response'.items = <<LoginNextList(l)>>
                      /\ response'.count = NoCount
                      /\ UNCHANGED store
             /\ \A hx \in BOOLEAN :
                   api_get_lists(cookie, hx) =>
                      /\ response'.status \in {401, 302}
                      /\ response'.items = <<LoginNextApp>>
                      /\ response'.count = NoCount
                      /\ UNCHANGED store]_vars

\* The page of list 1 was asked for without a session and refused, while
\* list 1 is stored with a todo in it.
C26_Witness ==
    /\ response.op = "app_list_page" /\ response.status = 302
    /\ response.items = <<LoginNextList(1)>>
    /\ 1 \in DOMAIN lists /\ TodosOf(1) # {}

\* C22: two creations in one sibling set that run at the same time leave
\* the two new records at different positions, as they would one after the
\* other.  Stated for every two records that were added to FrameStore in
\* the same list, or in the lists of the same user.
NewTodoIds == DOMAIN todos \ {1, 2, 3}

NewListIds == DOMAIN lists \ {1, 2, 3}

C22_ConcurrentCreatesDistinct ==
    /\ \A s, t \in NewTodoIds :
          (s # t /\ todos[s].list_id = todos[t].list_id)
             => todos[s].position # todos[t].position
    /\ \A k, l \in NewListIds :
          (k # l /\ lists[k].user_id = lists[l].user_id)
             => lists[k].position # lists[l].position

\* C21: a reorder is atomic towards other requests.  While a reorder is in
\* flight the tables, which are what every other request reads, stay as
\* they were before it; the step that commits it changes them to exactly
\* what the whole handler makes of them and answers as the handler does; a
\* reorder that fails before its commit leaves them unchanged.
Commits(r) == (\A q \in pending' : q.req # r.req) /\ response'.status = 200

C21_ReorderAtomic ==
    [][\A r \in pending :
          /\ ~Commits(r) => UNCHANGED store
          /\ (Commits(r) /\ r.op = "reorder_todo")
                => reorder_todo(r.target, r.user_id, r.new_position)
          /\ (Commits(r) /\ r.op = "reorder_lists")
                => reorder_lists(r.user_id, r.rows)]_vars

\* A reader has listed the todos of list 1 while a move of one of them had
\* assigned some of its positions and not yet all.
C21_Witness ==
    /\ response.op = "search_todos"
    /\ response.status = 200
    /\ \E r \in pending :
          /\ r.op = "reorder_todo"
          /\ 0 < r.done /\ r.done < Len(r.rows)
          /\ \E t \in DOMAIN r.changed : r.changed[t] # todos[t].position

====
